---- MODULE Spec2Model ----
(***************************************************************************)
(* The two token CPI benchmark programs, token-ops (the "classic" program, *)
(* pinocchio-token) and token-ops-2022 (the "extended" program,            *)
(* pinocchio-token-2022).  process_instruction is a function of the        *)
(* instruction buffer and the ordered account list; its only effect is at  *)
(* most one call of the CPI primitive's invoke.  One instruction (buffer   *)
(* and account list) is drawn per behaviour and each program processes it. *)
(*                                                                         *)
(* The benchmark harness (src/tests) is modelled after the programs: its   *)
(* fixture builders under FixtureSpec, and main with its three reports     *)
(* under HarnessSpec.  The write-copy program (src/programs/write-copy)    *)
(* comes last, under WriteCopySpec.  Each specification leaves the         *)
(* variables of the others at rest.                                        *)
(*                                                                         *)
(* Indices are the source's 0-based indices; a TLA+ sequence s holds the   *)
(* source's s[i] at s[i + 1].                                              *)
(***************************************************************************)
EXTENDS Integers, Sequences, FiniteSets, TLC

VARIABLES
    instruction_data,   \* the instruction buffer, a sequence of bytes
    accounts,           \* the ordered account list, a sequence of addresses
    token_ops,          \* what the classic program did with the instruction
    token_ops_2022,     \* what the extended program did with the instruction
    write_copy,         \* the run of write-copy: its position and its buffers
    call,               \* one call of write_bytes_copy: arguments and result
    fixture,            \* a call of a fixture builder: arguments and result
    pc,                 \* where the benchmark harness stands in main
    entropy,            \* what the harness process draws its key pairs from
    unique,             \* the process-wide counter behind Pubkey::new_unique
    svm,                \* the ledger instance of the benchmark run in hand
    frame,              \* the local variables of the benchmark run in hand
    stdout,             \* the lines printed so far
    stderr,             \* the failures reported so far
    faults              \* how many loads and transactions have failed so far

\* The variables of the two programs, of the fixture builders, of the harness.
program_vars ==
    <<instruction_data, accounts, token_ops, token_ops_2022, write_copy, call>>
fixture_vars == <<fixture>>
harness_vars == <<pc, entropy, unique, svm, frame, stdout, stderr, faults>>

vars == <<program_vars, fixture_vars, harness_vars>>

------------------------------------------------------------------------------
(* Bounds of the model. *)

\* Longest account list drawn.
MaxAccounts == 6

\* Longest instruction buffer drawn (the longest schema, opcode 8, takes 10).
MaxDataLen == 11

------------------------------------------------------------------------------
(* Inputs. *)

\* The last opcode with a match arm; every other discriminator takes `_`.
LastOpcode == 14

\* Discriminators drawn: every opcode with an arm, and two without.
Discriminators == (0 .. LastOpcode) \cup {LastOpcode + 1, 255}

\* Values drawn for instruction bytes 1 and 2 (decimals / authority_type and
\* the optional-account flag; the low amount bytes of opcodes 0-3 and 8).
ByteSamples == {0, 1, 3, 255}

\* Fill patterns of instruction bytes 3 and later.
FillPatterns == {"ones", "ramp"}

Fill(p, i) == IF p = "ones" THEN 255 ELSE i

\* The buffer of length n that starts d, b1, b2 and goes on in pattern p.
Buffer(d, b1, b2, p, n) ==
    [i \in 1 .. n |->
        IF i = 1 THEN d
        ELSE IF i = 2 THEN b1
        ELSE IF i = 3 THEN b2
        ELSE Fill(p, i - 1)]

Buffers ==
    {Buffer(d, b1, b2, p, n) :
        d \in Discriminators, b1 \in ByteSamples, b2 \in ByteSamples,
        p \in FillPatterns, n \in 0 .. MaxDataLen}

\* The address of the account passed at index i: all distinct.
AddressAt(i) == 100 + i

AccountLists == {[i \in 1 .. n |-> AddressAt(i - 1)] : n \in 0 .. MaxAccounts}

------------------------------------------------------------------------------
(* The external CPI primitive: invoke returns Ok(()) or a program error. *)

CpiResults == {"Ok", "InsufficientFunds", "AccountFrozen"}

\* Option::None of an optional address, and the classic program's fixed
\* token program (it takes no token_program field).
None == "None"

------------------------------------------------------------------------------
(* The module-level operation catalog of both programs' doc comments: the *)
(* account roles of opcode d in order, f telling whether the optional     *)
(* account is present.                                                     *)

Catalog(d, f) ==
    CASE d = 0  -> <<"source", "destination", "authority", "token_program">>
      [] d = 1  -> <<"mint", "destination", "mint_authority", "token_program">>
      [] d = 2  -> <<"source", "mint", "authority", "token_program">>
      [] d = 3  -> <<"source", "delegate", "authority", "token_program">>
      [] d = 4  -> <<"source", "authority", "token_program">>
      [] d = 5  -> <<"account", "destination", "authority", "token_program">>
      [] d = 6  -> <<"account", "mint", "freeze_authority", "token_program">>
      [] d = 7  -> <<"account", "mint", "freeze_authority", "token_program">>
      [] d = 8  -> <<"source", "mint", "destination", "authority", "token_program">>
      [] d = 9  -> <<"mint", "rent_sysvar", "mint_authority">>
                   \o (IF f THEN <<"freeze_authority">> ELSE <<>>)
                   \o <<"token_program">>
      [] d = 10 -> <<"mint", "mint_authority">>
                   \o (IF f THEN <<"freeze_authority">> ELSE <<>>)
                   \o <<"token_program">>
      [] d = 11 -> <<"account", "mint", "owner", "rent_sysvar", "token_program">>
      [] d = 12 -> <<"account", "mint", "rent_sysvar", "owner_address", "token_program">>
      [] d = 13 -> <<"account", "mint", "owner_address", "token_program">>
      [] d = 14 -> <<"account", "authority">>
                   \o (IF f THEN <<"new_authority">> ELSE <<>>)
                   \o <<"token_program">>
      [] OTHER  -> <<>>

\* The operation names of the catalog, by opcode.
CatalogName(d) ==
    CASE d = 0  -> "Transfer"
      [] d = 1  -> "MintTo"
      [] d = 2  -> "Burn"
      [] d = 3  -> "Approve"
      [] d = 4  -> "Revoke"
      [] d = 5  -> "CloseAccount"
      [] d = 6  -> "FreezeAccount"
      [] d = 7  -> "ThawAccount"
      [] d = 8  -> "TransferChecked"
      [] d = 9  -> "InitializeMint"
      [] d = 10 -> "InitializeMint2"
      [] d = 11 -> "InitializeAccount"
      [] d = 12 -> "InitializeAccount2"
      [] d = 13 -> "InitializeAccount3"
      [] d = 14 -> "SetAuthority"
      [] OTHER  -> "none"

------------------------------------------------------------------------------
(* The reads of process_instruction, in the order the code evaluates them. *)
(* Each is bounds-checked; the first one out of bounds panics.             *)

\* instruction_data[i], bound to a local.
Byte(i, name) == [k |-> "byte", i |-> i, j |-> i + 1, name |-> name]

\* u64::from_le_bytes(instruction_data[i..j].try_into().unwrap())
LeU64(i, j, name) == [k |-> "u64", i |-> i, j |-> j, name |-> name]

\* &accounts[i], given to the operation as an account view.
View(i, role) == [k |-> "view", i |-> i, j |-> i + 1, name |-> role]

\* accounts[i].address(), given to the operation as an address value.
Addr(i, role) == [k |-> "addr", i |-> i, j |-> i + 1, name |-> role]

\* instruction_data[i] != 0; the bounds check is the Byte read of the same
\* index, which comes first (FALSE stands for "not read").
\* A flag taken as set for the value 1 only.
NonZero_OnlyOne(data, i) == i < Len(data) /\ data[i + 1] = 1

NonZero(data, i) == i < Len(data) /\ data[i + 1] # 0

------------------------------------------------------------------------------
(* token-ops: the match arms of process_instruction.  An arm is the       *)
(* operation it builds, its reads in evaluation order (the locals first,  *)
(* then the struct's fields in the order written), the locals that become *)
(* fields of the operation, and the optional addresses that are None.     *)

TokenOps_Transfer ==
    [kind |-> "Transfer",
     steps |-> <<LeU64(1, 9, "amount"),
                 View(0, "from"), View(1, "to"), View(2, "authority")>>,
     fields |-> {"amount"}, absent |-> {}]

TokenOps_MintTo ==
    [kind |-> "MintTo",
     steps |-> <<LeU64(1, 9, "amount"),
                 View(0, "mint"), View(1, "account"), View(2, "mint_authority")>>,
     fields |-> {"amount"}, absent |-> {}]

TokenOps_Burn ==
    [kind |-> "Burn",
     steps |-> <<LeU64(1, 9, "amount"),
                 View(0, "account"), View(1, "mint"), View(2, "authority")>>,
     fields |-> {"amount"}, absent |-> {}]

TokenOps_Approve ==
    [kind |-> "Approve",
     steps |-> <<LeU64(1, 9, "amount"),
                 View(0, "source"), View(1, "delegate"), View(2, "authority")>>,
     fields |-> {"amount"}, absent |-> {}]

TokenOps_Revoke ==
    [kind |-> "Revoke",
     steps |-> <<View(0, "source"), View(1, "authority")>>,
     fields |-> {}, absent |-> {}]

\* CloseAccount that also reads the account after its last role.
TokenOps_CloseAccount_ReadsTokenProgram ==
    [kind |-> "CloseAccount",
     steps |-> <<Addr(3, "token_program"),
                 View(0, "account"), View(1, "destination"), View(2, "authority")>>,
     fields |-> {}, absent |-> {}]

TokenOps_CloseAccount ==
    [kind |-> "CloseAccount",
     steps |-> <<View(0, "account"), View(1, "destination"), View(2, "authority")>>,
     fields |-> {}, absent |-> {}]

TokenOps_FreezeAccount ==
    [kind |-> "FreezeAccount",
     steps |-> <<View(0, "account"), View(1, "mint"), View(2, "freeze_authority")>>,
     fields |-> {}, absent |-> {}]

TokenOps_ThawAccount ==
    [kind |-> "ThawAccount",
     steps |-> <<View(0, "account"), View(1, "mint"), View(2, "freeze_authority")>>,
     fields |-> {}, absent |-> {}]

\* TransferChecked without the read of the decimals byte.
TokenOps_TransferChecked_NoDecimals ==
    [kind |-> "TransferChecked",
     steps |-> <<LeU64(1, 9, "amount"),
                 View(0, "from"), View(1, "mint"), View(2, "to"),
                 View(3, "authority")>>,
     fields |-> {"amount"}, absent |-> {}]

TokenOps_TransferChecked ==
    [kind |-> "TransferChecked",
     steps |-> <<LeU64(1, 9, "amount"), Byte(9, "decimals"),
                 View(0, "from"), View(1, "mint"), View(2, "to"),
                 View(3, "authority")>>,
     fields |-> {"amount", "decimals"}, absent |-> {}]

TokenOps_InitializeMint(data) ==
    LET has_freeze_authority == NonZero(data, 2) IN
    [kind |-> "InitializeMint",
     steps |-> <<Byte(1, "decimals"), Byte(2, "has_freeze_authority")>>
               \o (IF has_freeze_authority
                   THEN <<Addr(3, "freeze_authority")>> ELSE <<>>)
               \o <<View(0, "mint"), View(1, "rent_sysvar"),
                    Addr(2, "mint_authority")>>,
     fields |-> {"decimals"},
     absent |-> IF has_freeze_authority THEN {} ELSE {"freeze_authority"}]

\* InitializeMint2 taking the freeze authority from the mint authority's
\* account.
TokenOps_InitializeMint2_FreezeFromIndex1(data) ==
    LET has_freeze_authority == NonZero(data, 2) IN
    [kind |-> "InitializeMint2",
     steps |-> <<Byte(1, "decimals"), Byte(2, "has_freeze_authority")>>
               \o (IF has_freeze_authority
                   THEN <<Addr(1, "freeze_authority")>> ELSE <<>>)
               \o <<View(0, "mint"), Addr(1, "mint_authority")>>,
     fields |-> {"decimals"},
     absent |-> IF has_freeze_authority THEN {} ELSE {"freeze_authority"}]

TokenOps_InitializeMint2(data) ==
    LET has_freeze_authority == NonZero(data, 2) IN
    [kind |-> "InitializeMint2",
     steps |-> <<Byte(1, "decimals"), Byte(2, "has_freeze_authority")>>
               \o (IF has_freeze_authority
                   THEN <<Addr(2, "freeze_authority")>> ELSE <<>>)
               \o <<View(0, "mint"), Addr(1, "mint_authority")>>,
     fields |-> {"decimals"},
     absent |-> IF has_freeze_authority THEN {} ELSE {"freeze_authority"}]

TokenOps_InitializeAccount ==
    [kind |-> "InitializeAccount",
     steps |-> <<View(0, "account"), View(1, "mint"), View(2, "owner"),
                 View(3, "rent_sysvar")>>,
     fields |-> {}, absent |-> {}]

TokenOps_InitializeAccount2 ==
    [kind |-> "InitializeAccount2",
     steps |-> <<View(0, "account"), View(1, "mint"), View(2, "rent_sysvar"),
                 Addr(3, "owner")>>,
     fields |-> {}, absent |-> {}]

TokenOps_InitializeAccount3 ==
    [kind |-> "InitializeAccount3",
     steps |-> <<View(0, "account"), View(1, "mint"), Addr(2, "owner")>>,
     fields |-> {}, absent |-> {}]

TokenOps_SetAuthority(data) ==
    LET has_new_authority == NonZero(data, 2) IN
    [kind |-> "SetAuthority",
     steps |-> <<Byte(1, "authority_type"), Byte(2, "has_new_authority")>>
               \o (IF has_new_authority
                   THEN <<Addr(2, "new_authority")>> ELSE <<>>)
               \o <<View(0, "account"), View(1, "authority")>>,
     fields |-> {"authority_type"},
     absent |-> IF has_new_authority THEN {} ELSE {"new_authority"}]

\* A fallback arm that looks at the first account before returning.
NoOperation_ReadsAccount ==
    [kind |-> "none", steps |-> <<View(0, "account")>>,
     fields |-> {}, absent |-> {}]

\* `_ => Ok(())`: no read, no operation.
NoOperation == [kind |-> "none", steps |-> <<>>, fields |-> {}, absent |-> {}]

\* The match with the arms of FreezeAccount and ThawAccount exchanged.
TokenOps_Match_Exchanged(operation, data) ==
    CASE operation = 6  -> TokenOps_ThawAccount
      [] operation = 7  -> TokenOps_FreezeAccount
      [] operation = 0  -> TokenOps_Transfer
      [] operation = 14 -> TokenOps_SetAuthority(data)
      [] OTHER          -> NoOperation

\* match operation { ... } of token-ops.
TokenOps_Match(operation, data) ==
    CASE operation = 0  -> TokenOps_Transfer
      [] operation = 1  -> TokenOps_MintTo
      [] operation = 2  -> TokenOps_Burn
      [] operation = 3  -> TokenOps_Approve
      [] operation = 4  -> TokenOps_Revoke
      [] operation = 5  -> TokenOps_CloseAccount
      [] operation = 6  -> TokenOps_FreezeAccount
      [] operation = 7  -> TokenOps_ThawAccount
      [] operation = 8  -> TokenOps_TransferChecked
      [] operation = 9  -> TokenOps_InitializeMint(data)
      [] operation = 10 -> TokenOps_InitializeMint2(data)
      [] operation = 11 -> TokenOps_InitializeAccount
      [] operation = 12 -> TokenOps_InitializeAccount2
      [] operation = 13 -> TokenOps_InitializeAccount3
      [] operation = 14 -> TokenOps_SetAuthority(data)
      [] OTHER          -> NoOperation

------------------------------------------------------------------------------
(* token-ops-2022: the same arms, each reading the token program's address *)
(* from an account after its locals and before the struct's fields.        *)

TokenOps2022_Transfer ==
    [kind |-> "Transfer",
     steps |-> <<LeU64(1, 9, "amount"), Addr(3, "token_program"),
                 View(0, "from"), View(1, "to"), View(2, "authority")>>,
     fields |-> {"amount"}, absent |-> {}]

TokenOps2022_MintTo ==
    [kind |-> "MintTo",
     steps |-> <<LeU64(1, 9, "amount"), Addr(3, "token_program"),
                 View(0, "mint"), View(1, "account"), View(2, "mint_authority")>>,
     fields |-> {"amount"}, absent |-> {}]

\* Burn taking its amount one byte too far into the buffer.
TokenOps2022_Burn_Offset ==
    [kind |-> "Burn",
     steps |-> <<LeU64(2, 10, "amount"), Addr(3, "token_program"),
                 View(0, "account"), View(1, "mint"), View(2, "authority")>>,
     fields |-> {"amount"}, absent |-> {}]

TokenOps2022_Burn ==
    [kind |-> "Burn",
     steps |-> <<LeU64(1, 9, "amount"), Addr(3, "token_program"),
                 View(0, "account"), View(1, "mint"), View(2, "authority")>>,
     fields |-> {"amount"}, absent |-> {}]

TokenOps2022_Approve ==
    [kind |-> "Approve",
     steps |-> <<LeU64(1, 9, "amount"), Addr(3, "token_program"),
                 View(0, "source"), View(1, "delegate"), View(2, "authority")>>,
     fields |-> {"amount"}, absent |-> {}]

\* Revoke taking the token program from index 3, as the four-account arms do.
TokenOps2022_Revoke_Index3 ==
    [kind |-> "Revoke",
     steps |-> <<Addr(3, "token_program"),
                 View(0, "source"), View(1, "authority")>>,
     fields |-> {}, absent |-> {}]

TokenOps2022_Revoke ==
    [kind |-> "Revoke",
     steps |-> <<Addr(2, "token_program"),
                 View(0, "source"), View(1, "authority")>>,
     fields |-> {}, absent |-> {}]

TokenOps2022_CloseAccount ==
    [kind |-> "CloseAccount",
     steps |-> <<Addr(3, "token_program"),
                 View(0, "account"), View(1, "destination"), View(2, "authority")>>,
     fields |-> {}, absent |-> {}]

TokenOps2022_FreezeAccount ==
    [kind |-> "FreezeAccount",
     steps |-> <<Addr(3, "token_program"),
                 View(0, "account"), View(1, "mint"), View(2, "freeze_authority")>>,
     fields |-> {}, absent |-> {}]

TokenOps2022_ThawAccount ==
    [kind |-> "ThawAccount",
     steps |-> <<Addr(3, "token_program"),
                 View(0, "account"), View(1, "mint"), View(2, "freeze_authority")>>,
     fields |-> {}, absent |-> {}]

TokenOps2022_TransferChecked ==
    [kind |-> "TransferChecked",
     steps |-> <<LeU64(1, 9, "amount"), Byte(9, "decimals"),
                 Addr(4, "token_program"),
                 View(0, "from"), View(1, "mint"), View(2, "to"),
                 View(3, "authority")>>,
     fields |-> {"amount", "decimals"}, absent |-> {}]

\* A token program index that ignores the flag.
TokenOps2022_InitializeMint_token_program_idx_Fixed(has_freeze_authority) == 4

\* let token_program_idx = if has_freeze_authority { 4 } else { 3 };
TokenOps2022_InitializeMint_token_program_idx(has_freeze_authority) ==
    IF has_freeze_authority THEN 4 ELSE 3

TokenOps2022_InitializeMint(data) ==
    LET has_freeze_authority == NonZero(data, 2)
        token_program_idx ==
            TokenOps2022_InitializeMint_token_program_idx(has_freeze_authority)
    IN
    [kind |-> "InitializeMint",
     steps |-> <<Byte(1, "decimals"), Byte(2, "has_freeze_authority"),
                 Addr(token_program_idx, "token_program")>>
               \o (IF has_freeze_authority
                   THEN <<Addr(3, "freeze_authority")>> ELSE <<>>)
               \o <<View(0, "mint"), View(1, "rent_sysvar"),
                    Addr(2, "mint_authority")>>,
     fields |-> {"decimals"},
     absent |-> IF has_freeze_authority THEN {} ELSE {"freeze_authority"}]

\* let token_program_idx = if has_freeze_authority { 3 } else { 2 };
TokenOps2022_InitializeMint2_token_program_idx(has_freeze_authority) ==
    IF has_freeze_authority THEN 3 ELSE 2

TokenOps2022_InitializeMint2(data) ==
    LET has_freeze_authority == NonZero(data, 2)
        token_program_idx ==
            TokenOps2022_InitializeMint2_token_program_idx(has_freeze_authority)
    IN
    [kind |-> "InitializeMint2",
     steps |-> <<Byte(1, "decimals"), Byte(2, "has_freeze_authority"),
                 Addr(token_program_idx, "token_program")>>
               \o (IF has_freeze_authority
                   THEN <<Addr(2, "freeze_authority")>> ELSE <<>>)
               \o <<View(0, "mint"), Addr(1, "mint_authority")>>,
     fields |-> {"decimals"},
     absent |-> IF has_freeze_authority THEN {} ELSE {"freeze_authority"}]

TokenOps2022_InitializeAccount ==
    [kind |-> "InitializeAccount",
     steps |-> <<Addr(4, "token_program"),
                 View(0, "account"), View(1, "mint"), View(2, "owner"),
                 View(3, "rent_sysvar")>>,
     fields |-> {}, absent |-> {}]

TokenOps2022_InitializeAccount2 ==
    [kind |-> "InitializeAccount2",
     steps |-> <<Addr(4, "token_program"),
                 View(0, "account"), View(1, "mint"), View(2, "rent_sysvar"),
                 Addr(3, "owner")>>,
     fields |-> {}, absent |-> {}]

TokenOps2022_InitializeAccount3 ==
    [kind |-> "InitializeAccount3",
     steps |-> <<Addr(3, "token_program"),
                 View(0, "account"), View(1, "mint"), Addr(2, "owner")>>,
     fields |-> {}, absent |-> {}]

\* A token program index with the two cases exchanged.
TokenOps2022_SetAuthority_token_program_idx_Exchanged(has_new_authority) ==
    IF has_new_authority THEN 2 ELSE 3

\* let token_program_idx = if has_new_authority { 3 } else { 2 };
TokenOps2022_SetAuthority_token_program_idx(has_new_authority) ==
    IF has_new_authority THEN 3 ELSE 2

TokenOps2022_SetAuthority(data) ==
    LET has_new_authority == NonZero(data, 2)
        token_program_idx ==
            TokenOps2022_SetAuthority_token_program_idx(has_new_authority)
    IN
    [kind |-> "SetAuthority",
     steps |-> <<Byte(1, "authority_type"), Byte(2, "has_new_authority"),
                 Addr(token_program_idx, "token_program")>>
               \o (IF has_new_authority
                   THEN <<Addr(2, "new_authority")>> ELSE <<>>)
               \o <<View(0, "account"), View(1, "authority")>>,
     fields |-> {"authority_type"},
     absent |-> IF has_new_authority THEN {} ELSE {"new_authority"}]

\* match operation { ... } of token-ops-2022.
TokenOps2022_Match(operation, data) ==
    CASE operation = 0  -> TokenOps2022_Transfer
      [] operation = 1  -> TokenOps2022_MintTo
      [] operation = 2  -> TokenOps2022_Burn
      [] operation = 3  -> TokenOps2022_Approve
      [] operation = 4  -> TokenOps2022_Revoke
      [] operation = 5  -> TokenOps2022_CloseAccount
      [] operation = 6  -> TokenOps2022_FreezeAccount
      [] operation = 7  -> TokenOps2022_ThawAccount
      [] operation = 8  -> TokenOps2022_TransferChecked
      [] operation = 9  -> TokenOps2022_InitializeMint(data)
      [] operation = 10 -> TokenOps2022_InitializeMint2(data)
      [] operation = 11 -> TokenOps2022_InitializeAccount
      [] operation = 12 -> TokenOps2022_InitializeAccount2
      [] operation = 13 -> TokenOps2022_InitializeAccount3
      [] operation = 14 -> TokenOps2022_SetAuthority(data)
      [] OTHER          -> NoOperation

------------------------------------------------------------------------------
(* Values. *)

\* u64::from_le_bytes of 8 bytes.  The value is kept as its four base-65536
\* digits, least significant first: b[1] + 256 * b[2] is digit 0, and so on.
\* The amount cut to its low 32 bits.
U64FromLeBytes_Low32(b) ==
    [n \in 1 .. 4 |-> IF n <= 2 THEN b[2 * n - 1] + 256 * b[2 * n] ELSE 0]

U64FromLeBytes(b) == [n \in 1 .. 4 |-> b[2 * n - 1] + 256 * b[2 * n]]

\* The discriminants of the CPI library's AuthorityType (MintTokens,
\* FreezeAccount, AccountOwner, CloseAccount).
AuthorityTypeDomain == 0 .. 3

\* unsafe { core::mem::transmute(authority_type) } of a u8 to AuthorityType.
\* A byte that is no discriminant of the enum is undefined behaviour: the
\* operation may carry the byte as it is, or any value of the enum.
Transmute(authority_type) ==
    IF authority_type \in AuthorityTypeDomain
    THEN {authority_type}
    ELSE {authority_type} \cup AuthorityTypeDomain

------------------------------------------------------------------------------
(* process_instruction. *)

Min(S) == CHOOSE x \in S : \A y \in S : x <= y

\* The bounds check of one read.
InBounds(s, accts, data) ==
    IF s.k \in {"byte", "u64"} THEN s.j <= Len(data) ELSE s.i < Len(accts)

\* match operation { ... } of the program named.
Match(program, operation, data) ==
    IF program = "token_ops"
    THEN TokenOps_Match(operation, data)
    ELSE TokenOps2022_Match(operation, data)

\* let operation = instruction_data[0]; match operation { ... }
Arm(program, data) ==
    IF Len(data) = 0 THEN NoOperation ELSE Match(program, data[1], data)

\* Every read of one call, in order.
Reads(program, data) == <<Byte(0, "operation")>> \o Arm(program, data).steps

\* The value a data read binds.
Local(s, data) ==
    IF s.k = "u64" THEN U64FromLeBytes(SubSeq(data, s.i + 1, s.j))
    ELSE data[s.i + 1]

\* The named steps of kinds ks among the steps done.
Named(done, ks) == {done[n] : n \in {m \in 1 .. Len(done) : done[m].k \in ks}}

\* The step of name r among the steps S.
StepOf(S, r) == CHOOSE s \in S : s.name = r

\* role |-> the address of the account the step of that role reads.
AddressByRole(S, accts) ==
    [r \in {s.name : s \in S} |-> accts[StepOf(S, r).i + 1]]

\* local |-> the value the data read of that name binds.
LocalByName(S, data) ==
    [r \in {s.name : s \in S} |-> Local(StepOf(S, r), data)]

\* role |-> the index of the account the step of that role reads.
IndexByRole(S) == [r \in {s.name : s \in S} |-> StepOf(S, r).i]

\* Operations that take the optional account as present whenever the account
\* list is long, whatever the flag byte says.
Operations_OptionalByLength(arm, accts, data) ==
    LET all == Named(arm.steps, {"byte", "u64", "view", "addr"})
        locals == {s \in all : s.k \in {"byte", "u64"} /\ s.name \in arm.fields}
        views == {s \in all : s.k = "view"}
        addrs == {s \in all : s.k = "addr"}
        given == AddressByRole(addrs, accts)
        fields == LocalByName(locals, data)
        addresses ==
            [r \in DOMAIN given \cup arm.absent |->
                IF r \in arm.absent
                THEN (IF Len(accts) > 4 THEN accts[Len(accts)] ELSE None)
                ELSE given[r]]
    IN  {[kind |-> arm.kind,
          views |-> AddressByRole(views, accts),
          addresses |-> addresses,
          fields |-> [f \in DOMAIN fields |->
                        IF f = "authority_type" THEN t ELSE fields[f]]] :
            t \in IF "authority_type" \in arm.fields
                   THEN Transmute(fields["authority_type"]) ELSE {0}}

\* The operation descriptors an arm may build once all its reads are done:
\* one, or one per outcome of the transmute.
Operations(arm, accts, data) ==
    LET all == Named(arm.steps, {"byte", "u64", "view", "addr"})
        locals == {s \in all : s.k \in {"byte", "u64"} /\ s.name \in arm.fields}
        views == {s \in all : s.k = "view"}
        addrs == {s \in all : s.k = "addr"}
        given == AddressByRole(addrs, accts)
        fields == LocalByName(locals, data)
        addresses ==
            [r \in DOMAIN given \cup arm.absent |->
                IF r \in arm.absent THEN None ELSE given[r]]
    IN  IF "authority_type" \in arm.fields
        THEN {[kind |-> arm.kind,
               views |-> AddressByRole(views, accts),
               addresses |-> addresses,
               fields |-> [fields EXCEPT !["authority_type"] = t]] :
                 t \in Transmute(fields["authority_type"])}
        ELSE {[kind |-> arm.kind,
               views |-> AddressByRole(views, accts),
               addresses |-> addresses,
               fields |-> fields]}

\* An invoke whose error is dropped: `let _ = op.invoke(); Ok(())`.
Invoke_Swallowed(op, ret) == [cpi |-> <<[op |-> op, ret |-> ret]>>, result |-> "Ok"]

\* `.invoke()` as the arm's value: one call of the CPI primitive, whose
\* result is the result of process_instruction.
Invoke(op, ret) == [cpi |-> <<[op |-> op, ret |-> ret]>>, result |-> ret]

\* Before the program has run.
Pending ==
    [status |-> "pending", result |-> "pending", panic |-> "none", cpi |-> <<>>,
     dataRead |-> {}, accRead |-> {}, binding |-> <<>>]

\* What a call leaves behind, given the reads done.
Trace(done) ==
    LET D == Named(done, {"byte", "u64"})
        A == Named(done, {"view", "addr"})
    IN  [dataRead |-> UNION {s.i .. (s.j - 1) : s \in D},
         accRead |-> {s.i : s \in A},
         binding |-> IndexByRole(A)]

\* Every outcome of process_instruction(_program_id, accounts, instruction_data).
ProcessInstruction(program, accts, data) ==
    LET arm == Arm(program, data)
        reads == Reads(program, data)
        bad == {n \in 1 .. Len(reads) : ~InBounds(reads[n], accts, data)}
    IN  IF bad # {}
        THEN LET first == Min(bad)
                 t == Trace(SubSeq(reads, 1, first - 1))
             IN  {[status |-> "panicked", result |-> "panic",
                   panic |-> IF reads[first].k \in {"byte", "u64"}
                             THEN "instruction_data" ELSE "accounts",
                   cpi |-> <<>>,
                   dataRead |-> t.dataRead, accRead |-> t.accRead,
                   binding |-> t.binding]}
        ELSE LET t == Trace(reads) IN
             IF arm.kind = "none"
             THEN {[status |-> "returned", result |-> "Ok", panic |-> "none",
                    cpi |-> <<>>,
                    dataRead |-> t.dataRead, accRead |-> t.accRead,
                    binding |-> t.binding]}
             ELSE {[status |-> "returned", result |-> Invoke(op, ret).result,
                    panic |-> "none", cpi |-> Invoke(op, ret).cpi,
                    dataRead |-> t.dataRead, accRead |-> t.accRead,
                    binding |-> t.binding] :
                      op \in Operations(arm, accts, data), ret \in CpiResults}

------------------------------------------------------------------------------
(* The state machine. *)

\* No fixture builder is called and no harness runs.
NoFixture == fixture = [fn |-> "none", args |-> <<>>, data |-> <<>>]
NoHarness ==
    /\ pc = [at |-> "none"]
    /\ entropy = 0
    /\ unique = 0
    /\ svm = [id |-> 0]
    /\ frame = [op |-> "none"]
    /\ stdout = <<>>
    /\ stderr = <<>>
    /\ faults = 0

\* No instruction is in hand and neither program runs.
NoWriteCopy ==
    /\ write_copy = [at |-> "none"]
    /\ call = [done |-> TRUE]
NoInstruction ==
    /\ instruction_data = <<>>
    /\ accounts = <<>>
    /\ token_ops = [status |-> "none"]
    /\ token_ops_2022 = [status |-> "none"]
    /\ NoWriteCopy

Init ==
    /\ instruction_data \in Buffers
    /\ accounts \in AccountLists
    /\ token_ops = Pending
    /\ token_ops_2022 = Pending
    /\ NoWriteCopy
    /\ NoFixture
    /\ NoHarness

\* The classic program processes the instruction.
TokenOpsProcessInstruction ==
    /\ token_ops.status = "pending"
    /\ token_ops' \in ProcessInstruction("token_ops", accounts, instruction_data)
    /\ UNCHANGED <<instruction_data, accounts, token_ops_2022, write_copy, call>>
    /\ UNCHANGED <<fixture_vars, harness_vars>>

\* The extended program processes the instruction.
TokenOps2022ProcessInstruction ==
    /\ token_ops_2022.status = "pending"
    /\ token_ops_2022' \in
           ProcessInstruction("token_ops_2022", accounts, instruction_data)
    /\ UNCHANGED <<instruction_data, accounts, token_ops, write_copy, call>>
    /\ UNCHANGED <<fixture_vars, harness_vars>>

Next == TokenOpsProcessInstruction \/ TokenOps2022ProcessInstruction

Spec == Init /\ [][Next]_vars

------------------------------------------------------------------------------
(* What the claims speak of. *)

Programs == {"token_ops", "token_ops_2022"}

\* The run of a program in the current state.
RunOf(program) == IF program = "token_ops" THEN token_ops ELSE token_ops_2022

Done(program) == RunOf(program).status # "pending"

\* The discriminator of a non-empty buffer.
Discriminator == instruction_data[1]

HasOpcode == Len(instruction_data) > 0 /\ Discriminator \in 0 .. LastOpcode

\* The bytes the schema of opcode d takes, discriminator included.
SchemaLen(d) ==
    CASE d \in 0 .. 3        -> 9
      [] d = 8               -> 10
      [] d \in {9, 10, 14}   -> 3
      [] OTHER               -> 1

\* Whether the optional-account flag byte (byte 2 of opcodes 9, 10, 14) is set.
FlagSet ==
    /\ HasOpcode
    /\ Discriminator \in {9, 10, 14}
    /\ Len(instruction_data) >= 3
    /\ instruction_data[3] # 0

\* The accounts the catalog lists for the instruction; the classic program
\* needs all but the token_program entry.
RoleCount(program) ==
    Len(Catalog(Discriminator, FlagSet)) - (IF program = "token_ops" THEN 1 ELSE 0)

LongEnough(program) ==
    /\ HasOpcode
    /\ Len(instruction_data) >= SchemaLen(Discriminator)
    /\ Len(accounts) >= RoleCount(program)

------------------------------------------------------------------------------
(* C1 *)

\* C1: for a buffer whose first byte d is in 0..14, with payload and account
\* list long enough, each program calls the CPI invoke exactly once, on the
\* operation at position d of the catalog, and on no other.
C1_DispatchesCatalogOperation ==
    \A p \in Programs :
        (Done(p) /\ LongEnough(p)) =>
            /\ RunOf(p).status = "returned"
            /\ Len(RunOf(p).cpi) = 1
            /\ RunOf(p).cpi[1].op.kind = CatalogName(Discriminator)

\* Opcode 7 with four accounts: both programs have invoked ThawAccount once.
C1_Witness ==
    /\ HasOpcode /\ Discriminator = 7 /\ Len(accounts) = 4
    /\ \A p \in Programs :
           /\ Len(RunOf(p).cpi) = 1
           /\ RunOf(p).cpi[1].op.kind = "ThawAccount"

------------------------------------------------------------------------------
(* C2 *)

\* C2: for a discriminator outside 0..14 each program returns success, does
\* not invoke the CPI primitive, and reads no payload byte and no account,
\* whatever the payload and the account list are.
C2_UnknownDiscriminatorIsNoOp ==
    \A p \in Programs :
        (Done(p) /\ Len(instruction_data) > 0 /\ ~HasOpcode) =>
            /\ RunOf(p).status = "returned"
            /\ RunOf(p).result = "Ok"
            /\ RunOf(p).cpi = <<>>
            /\ RunOf(p).dataRead = {0}
            /\ RunOf(p).accRead = {}

\* Discriminator 255 with a payload and an empty account list, run by both.
C2_Witness ==
    /\ Len(instruction_data) = MaxDataLen /\ Discriminator = 255
    /\ accounts = <<>>
    /\ \A p \in Programs : RunOf(p).result = "Ok"

------------------------------------------------------------------------------
(* C3 *)

\* C3: when process_instruction reaches the CPI invoke, its result is the
\* result of that one invoke: success as success, every error as the same
\* error, and there is no second invoke.
C3_ReturnsInvokeResult ==
    \A p \in Programs :
        (RunOf(p).cpi # <<>>) =>
            /\ Len(RunOf(p).cpi) = 1
            /\ RunOf(p).status = "returned"
            /\ RunOf(p).result = RunOf(p).cpi[1].ret

\* The invoke of the classic program failed and that of the extended one
\* succeeded.
C3_Witness ==
    /\ Len(token_ops.cpi) = 1 /\ token_ops.cpi[1].ret = "AccountFrozen"
    /\ token_ops.result = "AccountFrozen"
    /\ Len(token_ops_2022.cpi) = 1 /\ token_ops_2022.result = "Ok"

------------------------------------------------------------------------------
(* C4 *)

\* C4: a buffer with fewer bytes than the schema of its opcode takes (the
\* empty buffer; fewer than 9 for opcodes 0-3, than 10 for opcode 8, than 3
\* for opcodes 9, 10, 14) makes each program fail on a read of the buffer,
\* and the CPI primitive is not invoked.
C4_ShortBufferFailsDecode ==
    \A p \in Programs :
        (/\ Done(p)
         /\ \/ Len(instruction_data) = 0
            \/ HasOpcode /\ Len(instruction_data) < SchemaLen(Discriminator)) =>
            /\ RunOf(p).status = "panicked"
            /\ RunOf(p).panic = "instruction_data"
            /\ RunOf(p).cpi = <<>>

\* Opcode 8 with the amount and no decimals byte, and accounts enough: both
\* programs have failed.
C4_Witness ==
    /\ Len(instruction_data) = 9 /\ Discriminator = 8
    /\ Len(accounts) = MaxAccounts
    /\ \A p \in Programs : RunOf(p).panic = "instruction_data"

------------------------------------------------------------------------------
(* C5 *)

\* C5: for SetAuthority the authority_type byte is validated against the
\* authority-type domain before use: with a byte outside it each program
\* fails at decode time and no SetAuthority is built or invoked.
C5_AuthorityTypeValidated ==
    \A p \in Programs :
        (/\ Done(p)
         /\ LongEnough(p) /\ Discriminator = 14
         /\ instruction_data[2] \notin AuthorityTypeDomain) =>
            /\ RunOf(p).status = "panicked"
            /\ RunOf(p).panic = "instruction_data"
            /\ RunOf(p).cpi = <<>>

------------------------------------------------------------------------------
(* C6 *)

\* The index of the token program account of opcode d when no optional
\* account is present.
FlagClearIndex(d) ==
    CASE d \in {0, 1, 2, 3, 5, 6, 7, 9, 13} -> 3
      [] d \in {4, 10, 14}                  -> 2
      [] OTHER                              -> 4

\* The extended program has read the token program's address.
TokenProgramRead == "token_program" \in DOMAIN token_ops_2022.binding

\* C6: in the extended program, for opcodes 9, 10 and 14, the index of the
\* account used as token program is one greater with the optional-account
\* flag set than with it clear: 4 against 3 for opcode 9, 3 against 2 for
\* opcodes 10 and 14.
C6_FlagShiftsTokenProgramByOne ==
    (HasOpcode /\ Discriminator \in {9, 10, 14} /\ TokenProgramRead) =>
        /\ Discriminator = 9 =>
               token_ops_2022.binding["token_program"] = IF FlagSet THEN 4 ELSE 3
        /\ Discriminator \in {10, 14} =>
               token_ops_2022.binding["token_program"] = IF FlagSet THEN 3 ELSE 2

\* InitializeMint with the flag set: the token program came from index 4.
C6_Witness ==
    /\ HasOpcode /\ Discriminator = 9 /\ FlagSet
    /\ token_ops_2022.status = "returned"
    /\ token_ops_2022.binding["token_program"] = 4

------------------------------------------------------------------------------
(* C7 *)

\* The expected account count of opcode d in the extended program, f being
\* 1 when the optional-account flag is set and 0 otherwise.
ExpectedCount(d, f) ==
    CASE d \in {0, 1, 2, 3, 5, 6, 7, 13} -> 4
      [] d = 4                           -> 3
      [] d \in {8, 11, 12}               -> 5
      [] d = 9                           -> 4 + f
      [] OTHER                           -> 3 + f

FlagBit == IF FlagSet THEN 1 ELSE 0

\* C7: in the extended program the expected account count is the catalog's
\* role count, one more with the optional-account flag set; a shorter
\* account list makes process_instruction fail without any invoke, and with
\* a list of exactly that count every role resolves.
C7_ExpectedAccountCount ==
    (Done("token_ops_2022") /\ HasOpcode) =>
        /\ ExpectedCount(Discriminator, FlagBit)
               = Len(Catalog(Discriminator, FlagSet))
        /\ Len(accounts) < ExpectedCount(Discriminator, FlagBit) =>
               /\ token_ops_2022.status = "panicked"
               /\ token_ops_2022.cpi = <<>>
        /\ (/\ Len(accounts) = ExpectedCount(Discriminator, FlagBit)
            /\ Len(instruction_data) >= SchemaLen(Discriminator)) =>
               /\ token_ops_2022.status = "returned"
               /\ token_ops_2022.accRead
                      = 0 .. (ExpectedCount(Discriminator, FlagBit) - 1)

\* InitializeMint2 with the flag set and three accounts, one fewer than the
\* four it then needs: the extended program failed on the account list.
C7_Witness ==
    /\ HasOpcode /\ Discriminator = 10 /\ FlagSet
    /\ Len(accounts) = 3
    /\ token_ops_2022.panic = "accounts"

------------------------------------------------------------------------------
(* C8 *)

Max(S) == CHOOSE x \in S : \A y \in S : x >= y

\* The indices the extended program bound to the roles other than the token
\* program.
RoleIndices ==
    {token_ops_2022.binding[r] :
        r \in DOMAIN token_ops_2022.binding \ {"token_program"}}

\* The value of the optional-account flag byte (0 for the opcodes without).
FlagValue ==
    IF Discriminator \in {9, 10, 14} /\ Len(instruction_data) >= 3
    THEN instruction_data[3] ELSE 0

\* C8 as stated: in the extended program the token program account is the
\* one right after the last role account, and its index is the flag-clear
\* index plus the value of the optional-account flag byte.
C8_ShiftByFlagValue ==
    (HasOpcode /\ token_ops_2022.status = "returned") =>
        /\ token_ops_2022.binding["token_program"] = Max(RoleIndices) + 1
        /\ token_ops_2022.binding["token_program"]
               = FlagClearIndex(Discriminator) + FlagValue

\* C8 as the code has it: the token program account is the one right after
\* the last role account, and its index is the flag-clear index plus one
\* when the flag byte is nonzero (whatever its value), plus nothing when it
\* is zero.
C8_ShiftByOneWhenFlagNonzero ==
    (HasOpcode /\ token_ops_2022.status = "returned") =>
        /\ token_ops_2022.binding["token_program"] = Max(RoleIndices) + 1
        /\ token_ops_2022.binding["token_program"]
               = FlagClearIndex(Discriminator) + (IF FlagValue # 0 THEN 1 ELSE 0)

\* SetAuthority with flag byte 255: the token program came from index 3.
C8_Witness ==
    /\ HasOpcode /\ Discriminator = 14 /\ FlagValue = 255
    /\ token_ops_2022.status = "returned"
    /\ token_ops_2022.binding["token_program"] = 3

------------------------------------------------------------------------------
(* C9 *)

\* The index of the token_program entry in the catalog's account list.
TokenProgramEntry == Len(Catalog(Discriminator, FlagSet)) - 1

\* C9: the classic program reads no account at or beyond the index of the
\* catalog's token_program entry; a list of the role accounts alone (one
\* fewer than the extended program needs) resolves every role; and the
\* operation built is the one built from the role accounts alone, with no
\* token program in it.
C9_ClassicHasNoTokenProgramSlot ==
    (Done("token_ops") /\ HasOpcode) =>
        /\ \A i \in token_ops.accRead : i < TokenProgramEntry
        /\ (/\ Len(accounts) = TokenProgramEntry
            /\ Len(instruction_data) >= SchemaLen(Discriminator)) =>
               token_ops.status = "returned"
        /\ token_ops.status = "returned" =>
               /\ token_ops.cpi[1].op \in
                      Operations(Arm("token_ops", instruction_data),
                                 SubSeq(accounts, 1, TokenProgramEntry),
                                 instruction_data)
               /\ "token_program" \notin DOMAIN token_ops.cpi[1].op.addresses
               /\ "token_program" \notin DOMAIN token_ops.binding

\* CloseAccount with three accounts: the classic program invoked, and the
\* extended program failed for want of the fourth.
C9_Witness ==
    /\ HasOpcode /\ Discriminator = 5 /\ Len(accounts) = 3
    /\ Len(token_ops.cpi) = 1
    /\ token_ops_2022.panic = "accounts"

------------------------------------------------------------------------------
(* C10 *)

\* f without its entry for r.
Without(f, r) == [x \in DOMAIN f \ {r} |-> f[x]]

------------------------------------------------------------------------------
(* C11 *)

\* The buffer cut to the length its opcode's schema takes.
ExactBuffer == SubSeq(instruction_data, 1, SchemaLen(Discriminator))

\* The operation a program invoked.
InvokedOp(program) == RunOf(program).cpi[1].op

\* C11: for every opcode a buffer of exactly the documented length decodes,
\* and a buffer one byte longer decodes to the same operation with the same
\* field values: the extra byte is not read.
C11_ExtraByteIgnored ==
    \A p \in Programs :
        (Done(p) /\ HasOpcode /\ Len(accounts) >= RoleCount(p)) =>
            /\ Len(instruction_data) = SchemaLen(Discriminator) =>
                   /\ RunOf(p).status = "returned"
                   /\ Len(RunOf(p).cpi) = 1
            /\ Len(instruction_data) = SchemaLen(Discriminator) + 1 =>
                   /\ RunOf(p).status = "returned"
                   /\ Len(RunOf(p).cpi) = 1
                   /\ InvokedOp(p) \in
                          Operations(Arm(p, ExactBuffer), accounts, ExactBuffer)
                   /\ RunOf(p).dataRead \subseteq
                          0 .. (SchemaLen(Discriminator) - 1)

\* TransferChecked with eleven bytes, one more than its ten: both invoked.
C11_Witness ==
    /\ HasOpcode /\ Discriminator = 8 /\ Len(instruction_data) = 11
    /\ \A p \in Programs :
           /\ RunOf(p).status = "returned"
           /\ InvokedOp(p).kind = "TransferChecked"

------------------------------------------------------------------------------
(* C12 *)

\* Account lists of other addresses than those of AccountLists, long enough
\* for every opcode.
OtherAccountLists ==
    {[i \in 1 .. n |-> 200 - i] : n \in (MaxAccounts - 1) .. MaxAccounts}

\* Whether an optional address is None (addresses are numbers, None is not).
IsNone(a) == ToString(a) = ToString(None)

\* What of an operation comes from the instruction bytes: its kind, its
\* payload fields, and which optional addresses are absent.
Decoded(op) ==
    [kind |-> op.kind, fields |-> op.fields,
     absent |-> {r \in DOMAIN op.addresses : IsNone(op.addresses[r])}]

\* The role indices of opcode d with the flag set or clear.
BindingOf(program, d, f) ==
    IndexByRole(Named(Arm(program, <<d, 0, IF f THEN 1 ELSE 0>>).steps,
                      {"view", "addr"}))

\* C12: the operation selected and its payload fields depend on the
\* instruction bytes alone: every account list long enough gives, for the
\* same bytes, the same operation, field values and optional-account
\* presence, and the role indices depend on the discriminator and on the
\* flag being set only.
C12_DecodingIgnoresAccounts ==
    \A p \in Programs :
        (RunOf(p).status = "returned" /\ HasOpcode) =>
            /\ \A other \in OtherAccountLists :
                   Len(other) >= RoleCount(p) =>
                       Decoded(InvokedOp(p)) \in
                           {Decoded(o) :
                               o \in Operations(Arm(p, instruction_data),
                                                other, instruction_data)}
            /\ RunOf(p).binding = BindingOf(p, Discriminator, FlagSet)

\* InitializeMint2 with the flag clear and the longest account list: both
\* invoked it without a freeze authority.
C12_Witness ==
    /\ HasOpcode /\ Discriminator = 10 /\ ~FlagSet
    /\ Len(instruction_data) >= 3 /\ Len(accounts) = MaxAccounts
    /\ \A p \in Programs :
           /\ RunOf(p).status = "returned"
           /\ IsNone(InvokedOp(p).addresses["freeze_authority"])

------------------------------------------------------------------------------
(* The fixture builders of the benchmark harness (src/tests/src/main.rs).   *)
(* A Pubkey is its 32 bytes; an Option is a sequence of at most one value;  *)
(* a u64 is its four base-65536 digits, least significant first.            *)

\* The size of an SPL Token mint record and of a Pubkey.
MintLen == 82
PubkeyLen == 32

\* vec![0u8; n]
Zeroed(n) == [i \in 1 .. n |-> 0]

\* data[from..to].copy_from_slice(src), for a src of to - from bytes.
CopyFromSlice(data, from, to, src) ==
    (SubSeq(data, 1, from) \o src) \o SubSeq(data, to + 1, Len(data))

\* n.to_le_bytes() of a u32 below 2^31 and of a u64.
U32ToLeBytes(n) ==
    <<n % 256, (n \div 256) % 256, (n \div 65536) % 256, n \div 16777216>>
U64ToLeBytes(n) ==
    [i \in 1 .. 8 |->
        IF i % 2 = 1 THEN n[(i + 1) \div 2] % 256 ELSE n[i \div 2] \div 256]

\* A mint record that leaves the freeze authority's tag unwritten.
create_mint_data_TagOmitted(mint_authority, freeze_authority, decimals, supply) ==
    LET d1 == CopyFromSlice(Zeroed(MintLen), 0, 4, U32ToLeBytes(1))
        d2 == CopyFromSlice(d1, 4, 36, mint_authority)
        d3 == CopyFromSlice(d2, 36, 44, U64ToLeBytes(supply))
        d4 == [d3 EXCEPT ![44 + 1] = decimals]
        d5 == [d4 EXCEPT ![45 + 1] = 1]
    IN  IF freeze_authority # <<>>
        THEN CopyFromSlice(d5, 50, 82, freeze_authority[1])
        ELSE d5

create_mint_data(mint_authority, freeze_authority, decimals, supply) ==
    LET d1 == CopyFromSlice(Zeroed(MintLen), 0, 4, U32ToLeBytes(1))
        d2 == CopyFromSlice(d1, 4, 36, mint_authority)
        d3 == CopyFromSlice(d2, 36, 44, U64ToLeBytes(supply))
        d4 == [d3 EXCEPT ![44 + 1] = decimals]
        d5 == [d4 EXCEPT ![45 + 1] = 1]
    IN  IF freeze_authority # <<>>
        THEN CopyFromSlice(CopyFromSlice(d5, 46, 50, U32ToLeBytes(1)),
                           50, 82, freeze_authority[1])
        ELSE CopyFromSlice(d5, 46, 50, U32ToLeBytes(0))

\* The size of an SPL Token account record.
TokenAccountLen == 165

\* A token account record with the state written one byte further on.
create_token_account_data_StateAt109(mint, owner, amount) ==
    LET d1 == CopyFromSlice(Zeroed(TokenAccountLen), 0, 32, mint)
        d2 == CopyFromSlice(d1, 32, 64, owner)
        d3 == CopyFromSlice(d2, 64, 72, U64ToLeBytes(amount))
        d4 == CopyFromSlice(d3, 72, 76, U32ToLeBytes(0))
        d5 == CopyFromSlice(d4, 109, 113, U32ToLeBytes(0))
        d6 == [d5 EXCEPT ![109 + 1] = 1]
        d7 == CopyFromSlice(d6, 121, 129, U64ToLeBytes(<<0, 0, 0, 0>>))
    IN  CopyFromSlice(d7, 129, 133, U32ToLeBytes(0))

\* create_token_account_data(mint, owner, amount): the 165 bytes of a token
\* account.
create_token_account_data(mint, owner, amount) ==
    LET d1 == CopyFromSlice(Zeroed(TokenAccountLen), 0, 32, mint)
        d2 == CopyFromSlice(d1, 32, 64, owner)
        d3 == CopyFromSlice(d2, 64, 72, U64ToLeBytes(amount))
        d4 == CopyFromSlice(d3, 72, 76, U32ToLeBytes(0))
        d5 == [d4 EXCEPT ![108 + 1] = 1]
        d6 == CopyFromSlice(d5, 109, 113, U32ToLeBytes(0))
        d7 == CopyFromSlice(d6, 121, 129, U64ToLeBytes(<<0, 0, 0, 0>>))
    IN  CopyFromSlice(d7, 129, 133, U32ToLeBytes(0))

\* Arguments drawn for the builders.
PubkeySamples ==
    {[i \in 1 .. PubkeyLen |-> 0], [i \in 1 .. PubkeyLen |-> 255],
     [i \in 1 .. PubkeyLen |-> i], [i \in 1 .. PubkeyLen |-> 8 * (32 - i)]}
U64Samples ==
    {<<0, 0, 0, 0>>, <<1000, 0, 0, 0>>, <<51712, 15258, 0, 0>>,
     <<65535, 65535, 65535, 65535>>, <<0, 0, 0, 32768>>}
DecimalsSamples == {0, 9, 255}
MintArgs ==
    [mint_authority : PubkeySamples,
     freeze_authority : {<<>>} \cup {<<k>> : k \in PubkeySamples},
     decimals : DecimalsSamples,
     supply : U64Samples]
TokenAccountArgs ==
    [mint : PubkeySamples, owner : PubkeySamples, amount : U64Samples]

FixtureInit ==
    /\ NoInstruction
    /\ NoHarness
    /\ fixture \in
           {[fn |-> "create_mint_data", args |-> a, data |-> <<>>] :
               a \in MintArgs}
           \cup {[fn |-> "create_token_account_data", args |-> a,
                  data |-> <<>>] : a \in TokenAccountArgs}

\* create_mint_data is called with the arguments and returns.
CreateMintData ==
    /\ fixture.fn = "create_mint_data"
    /\ fixture.data = <<>>
    /\ fixture' = [fixture EXCEPT !.data =
           create_mint_data(fixture.args.mint_authority,
                            fixture.args.freeze_authority,
                            fixture.args.decimals, fixture.args.supply)]
    /\ UNCHANGED <<program_vars, harness_vars>>

\* create_token_account_data is called with the arguments and returns.
CreateTokenAccountData ==
    /\ fixture.fn = "create_token_account_data"
    /\ fixture.data = <<>>
    /\ fixture' = [fixture EXCEPT !.data =
           create_token_account_data(fixture.args.mint, fixture.args.owner,
                                     fixture.args.amount)]
    /\ UNCHANGED <<program_vars, harness_vars>>

FixtureNext == CreateMintData \/ CreateTokenAccountData

FixtureSpec == FixtureInit /\ [][FixtureNext]_vars

------------------------------------------------------------------------------
(* C17 *)

\* A COption<Pubkey> at (0-based) offset at: a four-byte little-endian tag,
\* 0 for None and 1 for Some, and the key's 32 bytes.
COptionTag(data, at) ==
    <<data[at + 1] + 256 * data[at + 2], data[at + 3] + 256 * data[at + 4]>>
COptionKey(data, at) ==
    IF COptionTag(data, at) = <<1, 0>>
    THEN <<SubSeq(data, at + 5, at + 4 + PubkeyLen)>> ELSE <<>>

\* The mint layout decoder.
UnpackMint(data) ==
    [valid |-> /\ Len(data) = MintLen
               /\ COptionTag(data, 0) \in {<<0, 0>>, <<1, 0>>}
               /\ COptionTag(data, 46) \in {<<0, 0>>, <<1, 0>>}
               /\ data[45 + 1] \in {0, 1},
     mint_authority |-> COptionKey(data, 0),
     supply |-> U64FromLeBytes(SubSeq(data, 36 + 1, 44)),
     decimals |-> data[44 + 1],
     is_initialized |-> data[45 + 1] = 1,
     freeze_authority |-> COptionKey(data, 46)]

\* A call of create_mint_data that has returned.
MintBuilt == fixture.fn = "create_mint_data" /\ fixture.data # <<>>

\* C17: create_mint_data returns 82 bytes from which the mint layout
\* decoder reads back the authority, supply, decimals and freeze authority
\* given, with the freeze authority present and with it absent (then the
\* tag is 0 and bytes 50..82 are all zero).
C17_MintRoundTrip ==
    MintBuilt =>
        /\ Len(fixture.data) = 82
        /\ UnpackMint(fixture.data).valid
        /\ UnpackMint(fixture.data).is_initialized
        /\ UnpackMint(fixture.data).mint_authority
               = <<fixture.args.mint_authority>>
        /\ UnpackMint(fixture.data).supply = fixture.args.supply
        /\ UnpackMint(fixture.data).decimals = fixture.args.decimals
        /\ UnpackMint(fixture.data).freeze_authority
               = fixture.args.freeze_authority
        /\ fixture.args.freeze_authority = <<>> =>
               \A i \in 46 .. 81 : fixture.data[i + 1] = 0

\* A mint built with a freeze authority other than the mint authority and a
\* supply that fills all eight bytes.
C17_Witness ==
    /\ MintBuilt
    /\ fixture.args.freeze_authority # <<>>
    /\ fixture.args.freeze_authority # <<fixture.args.mint_authority>>
    /\ fixture.args.supply = <<65535, 65535, 65535, 65535>>
    /\ UnpackMint(fixture.data).freeze_authority
           = fixture.args.freeze_authority

------------------------------------------------------------------------------
(* The benchmark harness (src/tests/src/main.rs): main prints three         *)
(* reports, each benchmark run builds a ledger of its own, submits its      *)
(* transactions to it and returns the compute units the ledger metered.     *)
(* The ledger (LiteSVM with the SPL Token binaries) is not part of the      *)
(* repository: whether a file loads and whether a transaction succeeds is   *)
(* the environment's choice.                                                *)

\* Failures (files that do not load, transactions that fail) in one
\* behaviour.
MaxFaults == 1

\* Pubkey::new_from_array([b; 32])
NewFromArray(b) == [i \in 1 .. PubkeyLen |-> b]

WRITE_LOOP_PROGRAM_ID == NewFromArray(3)
WRITE_COPY_PROGRAM_ID == NewFromArray(4)
TOKEN_OPS_PROGRAM_ID == NewFromArray(5)
TOKEN_OPS_2022_PROGRAM_ID == NewFromArray(6)
TOKEN_2022_PROGRAM_ID ==
    <<6, 221, 246, 225, 238, 117, 143, 222, 24, 66, 93, 188, 228, 108, 205, 218,
      182, 26, 252, 77, 131, 185, 13, 39, 254, 189, 249, 40, 216, 161, 139, 252>>

\* spl_token::ID and solana_sdk::sysvar::rent::ID, constants of the SDK.
SPL_TOKEN_ID ==
    <<6, 221, 246, 225, 215, 101, 161, 147, 217, 203, 225, 70, 206, 235, 121,
      172, 28, 180, 133, 237, 95, 91, 55, 145, 58, 140, 245, 133, 126, 255, 0,
      169>>
RENT_ID ==
    <<6, 167, 213, 23, 25, 44, 92, 81, 33, 140, 201, 76, 61, 74, 241, 127, 88,
      218, 238, 8, 155, 161, 253, 68, 227, 219, 217, 138, 0, 0, 0, 0>>

\* The n-th key of Pubkey::new_unique: the counter in the leading bytes.
NewUnique(n) ==
    [i \in 1 .. PubkeyLen |->
        IF i = 8 THEN n % 256 ELSE IF i = 7 THEN n \div 256 ELSE 0]

\* Seeds the process may draw its key pairs from, and the public key of the
\* k-th Keypair::new() under a seed: random bytes, no two alike.
EntropySamples == {0, 1}
KeypairNew(seed, k) ==
    [i \in 1 .. PubkeyLen |->
        IF i = 1 THEN 128 + seed
        ELSE IF i = 2 THEN k % 256 ELSE (37 * (seed + 1) * i + k) % 256]

\* AccountMeta::new(pubkey, is_signer), AccountMeta::new_readonly(...)
AccountMetaNew(pubkey, is_signer) ==
    [pubkey |-> pubkey, is_signer |-> is_signer, is_writable |-> TRUE]
AccountMetaNewReadonly(pubkey, is_signer) ==
    [pubkey |-> pubkey, is_signer |-> is_signer, is_writable |-> FALSE]

\* The two token harnesses: the benchmark program each measures, the token
\* program each loads, and the file each reads.
\* SPL Token taken for the token program of both harnesses.
TokenProgramId_Classic(h) == SPL_TOKEN_ID

Harnesses == {"token", "token_2022"}
BenchmarkProgramId(h) ==
    IF h = "token" THEN TOKEN_OPS_PROGRAM_ID ELSE TOKEN_OPS_2022_PROGRAM_ID
TokenProgramId(h) ==
    IF h = "token" THEN SPL_TOKEN_ID ELSE TOKEN_2022_PROGRAM_ID
ProgramPath(h) ==
    IF h = "token" THEN "target/deploy/token_ops.so"
    ELSE "target/deploy/token_ops_2022.so"

\* enum TokenOp, and `op as u8`.
TokenOp ==
    <<"Transfer", "MintTo", "Burn", "Approve", "Revoke", "CloseAccount",
      "FreezeAccount", "ThawAccount", "TransferChecked", "InitializeMint",
      "InitializeMint2", "InitializeAccount", "InitializeAccount2",
      "InitializeAccount3", "SetAuthority">>
AsU8(op) == CHOOSE d \in 0 .. 14 : TokenOp[d + 1] = op

\* The operations measured and printed in the order of the enum.
BenchmarkOrder_AsDeclared == TokenOp

\* The operations in the order benchmark_token_ops measures and prints them.
BenchmarkOrder ==
    <<"Transfer", "TransferChecked", "MintTo", "Burn", "Approve", "Revoke",
      "FreezeAccount", "ThawAccount", "CloseAccount", "InitializeMint",
      "InitializeMint2", "InitializeAccount", "InitializeAccount2",
      "InitializeAccount3", "SetAuthority">>


\* The amounts of the harness as u64 digits: 1000 (the amount of every
\* instruction), 1_000_000_000 (supply, source balance, lamports of a
\* fixture account), 10_000_000_000 (an airdrop), 1_000_000 and 0.
Amount1000 == <<1000, 0, 0, 0>>
Amount1e9 == <<51712, 15258, 0, 0>>
Amount1e10 == <<58368, 21515, 2, 0>>
Amount1e6 == <<16960, 15, 0, 0>>
AmountZero == <<0, 0, 0, 0>>

\* Account { lamports, data, owner, executable: false, rent_epoch: 0 }
Account(lamports, data, owner) ==
    [lamports |-> lamports, data |-> data, owner |-> owner,
     executable |-> FALSE, rent_epoch |-> 0]

\* The account LiteSVM's airdrop leaves at a key it has not seen.
Airdropped(lamports) == Account(lamports, <<>>, NewFromArray(0))

\* The account list of the measured instruction: the match on op in
\* run_token_benchmark.  f holds the run's keys, tp the token program's id.
OpAccounts(op, f, tp) ==
    CASE op = "Transfer" ->
            <<AccountMetaNew(f.source_token, FALSE),
              AccountMetaNew(f.dest_token, FALSE),
              AccountMetaNewReadonly(f.authority, TRUE),
              AccountMetaNewReadonly(tp, FALSE)>>
      [] op = "TransferChecked" ->
            <<AccountMetaNew(f.source_token, FALSE),
              AccountMetaNewReadonly(f.mint, FALSE),
              AccountMetaNew(f.dest_token, FALSE),
              AccountMetaNewReadonly(f.authority, TRUE),
              AccountMetaNewReadonly(tp, FALSE)>>
      [] op = "MintTo" ->
            <<AccountMetaNew(f.mint, FALSE),
              AccountMetaNew(f.dest_token, FALSE),
              AccountMetaNewReadonly(f.authority, TRUE),
              AccountMetaNewReadonly(tp, FALSE)>>
      [] op = "Burn" ->
            <<AccountMetaNew(f.source_token, FALSE),
              AccountMetaNew(f.mint, FALSE),
              AccountMetaNewReadonly(f.authority, TRUE),
              AccountMetaNewReadonly(tp, FALSE)>>
      [] op = "Approve" ->
            <<AccountMetaNew(f.source_token, FALSE),
              AccountMetaNewReadonly(f.delegate, FALSE),
              AccountMetaNewReadonly(f.authority, TRUE),
              AccountMetaNewReadonly(tp, FALSE)>>
      [] op = "Revoke" ->
            <<AccountMetaNew(f.source_token, FALSE),
              AccountMetaNewReadonly(f.authority, TRUE),
              AccountMetaNewReadonly(tp, FALSE)>>
      [] op \in {"FreezeAccount", "ThawAccount"} ->
            <<AccountMetaNew(f.source_token, FALSE),
              AccountMetaNewReadonly(f.mint, FALSE),
              AccountMetaNewReadonly(f.authority, TRUE),
              AccountMetaNewReadonly(tp, FALSE)>>
      [] op = "CloseAccount" ->
            <<AccountMetaNew(f.extra, FALSE),
              AccountMetaNew(f.authority, FALSE),
              AccountMetaNewReadonly(f.authority, TRUE),
              AccountMetaNewReadonly(tp, FALSE)>>
      [] op = "InitializeMint" ->
            <<AccountMetaNew(f.extra, FALSE),
              AccountMetaNewReadonly(RENT_ID, FALSE),
              AccountMetaNewReadonly(f.authority, FALSE),
              AccountMetaNewReadonly(f.authority, FALSE),
              AccountMetaNewReadonly(tp, FALSE)>>
      [] op = "InitializeMint2" ->
            <<AccountMetaNew(f.extra, FALSE),
              AccountMetaNewReadonly(f.authority, FALSE),
              AccountMetaNewReadonly(f.authority, FALSE),
              AccountMetaNewReadonly(tp, FALSE)>>
      [] op = "InitializeAccount" ->
            <<AccountMetaNew(f.extra, FALSE),
              AccountMetaNewReadonly(f.mint, FALSE),
              AccountMetaNewReadonly(f.authority, FALSE),
              AccountMetaNewReadonly(RENT_ID, FALSE),
              AccountMetaNewReadonly(tp, FALSE)>>
      [] op = "InitializeAccount2" ->
            <<AccountMetaNew(f.extra, FALSE),
              AccountMetaNewReadonly(f.mint, FALSE),
              AccountMetaNewReadonly(RENT_ID, FALSE),
              AccountMetaNewReadonly(f.authority, FALSE),
              AccountMetaNewReadonly(tp, FALSE)>>
      [] op = "InitializeAccount3" ->
            <<AccountMetaNew(f.extra, FALSE),
              AccountMetaNewReadonly(f.mint, FALSE),
              AccountMetaNewReadonly(f.authority, FALSE),
              AccountMetaNewReadonly(tp, FALSE)>>
      [] op = "SetAuthority" ->
            <<AccountMetaNew(f.mint, FALSE),
              AccountMetaNewReadonly(f.authority, TRUE),
              AccountMetaNewReadonly(f.extra, FALSE),
              AccountMetaNewReadonly(tp, FALSE)>>

\* Instruction data with the optional-account flag of opcodes 9, 10 and 14
\* clear.
OpData_FlagClear(op) ==
    CASE op \in {"Transfer", "MintTo", "Burn", "Approve"} ->
            <<AsU8(op)>> \o U64ToLeBytes(Amount1000)
      [] op = "TransferChecked" -> (<<8>> \o U64ToLeBytes(Amount1000)) \o <<9>>
      [] op \in {"InitializeMint", "InitializeMint2"} -> <<AsU8(op), 9, 0>>
      [] op = "SetAuthority" -> <<14, 0, 0>>
      [] OTHER -> <<AsU8(op)>>

\* The data of the measured instruction.
OpData(op) ==
    CASE op = "Transfer" -> <<0>> \o U64ToLeBytes(Amount1000)
      [] op = "TransferChecked" -> (<<8>> \o U64ToLeBytes(Amount1000)) \o <<9>>
      [] op = "MintTo" -> <<1>> \o U64ToLeBytes(Amount1000)
      [] op = "Burn" -> <<2>> \o U64ToLeBytes(Amount1000)
      [] op = "Approve" -> <<3>> \o U64ToLeBytes(Amount1000)
      [] op = "Revoke" -> <<4>>
      [] op = "FreezeAccount" -> <<6>>
      [] op = "ThawAccount" -> <<7>>
      [] op = "CloseAccount" -> <<5>>
      [] op = "InitializeMint" -> <<9, 9, 1>>
      [] op = "InitializeMint2" -> <<10, 9, 1>>
      [] op = "InitializeAccount" -> <<11>>
      [] op = "InitializeAccount2" -> <<12>>
      [] op = "InitializeAccount3" -> <<13>>
      [] op = "SetAuthority" -> <<14, 0, 1>>

\* Every transaction signed by the authority as well.
NeedsAuthoritySigner_Always(op) == TRUE

\* needs_authority_signer, the third component of the match's value.
NeedsAuthoritySigner(op) ==
    op \notin {"InitializeMint", "InitializeMint2", "InitializeAccount",
               "InitializeAccount2", "InitializeAccount3"}

\* A setup transaction for Approve as well.
HasSetup_AlsoApprove(op) == op \in {"Approve", "Revoke", "ThawAccount"}

\* The operations whose arm first submits a transaction of its own.
HasSetup(op) == op \in {"Revoke", "ThawAccount"}

\* Setup account lists that name the destination account, not the source.
SetupAccounts_OnDestination(op, f, tp) ==
    IF op = "Revoke"
    THEN <<AccountMetaNew(f.dest_token, FALSE),
           AccountMetaNewReadonly(f.delegate, FALSE),
           AccountMetaNewReadonly(f.authority, TRUE),
           AccountMetaNewReadonly(tp, FALSE)>>
    ELSE <<AccountMetaNew(f.dest_token, FALSE),
           AccountMetaNewReadonly(f.mint, FALSE),
           AccountMetaNewReadonly(f.authority, TRUE),
           AccountMetaNewReadonly(tp, FALSE)>>

\* approve_accounts / freeze_accounts and approve_data / freeze_data.
SetupAccounts(op, f, tp) ==
    IF op = "Revoke"
    THEN <<AccountMetaNew(f.source_token, FALSE),
           AccountMetaNewReadonly(f.delegate, FALSE),
           AccountMetaNewReadonly(f.authority, TRUE),
           AccountMetaNewReadonly(tp, FALSE)>>
    ELSE <<AccountMetaNew(f.source_token, FALSE),
           AccountMetaNewReadonly(f.mint, FALSE),
           AccountMetaNewReadonly(f.authority, TRUE),
           AccountMetaNewReadonly(tp, FALSE)>>
SetupData(op) ==
    IF op = "Revoke" THEN <<3>> \o U64ToLeBytes(Amount1000) ELSE <<6>>

\* Instruction { program_id, accounts, data }
Instruction(program_id, accts, data) ==
    [program_id |-> program_id, accounts |-> accts, data |-> data]

\* Transaction::new_signed_with_payer(&[instruction], Some(payer), signers, _)
Transaction(instruction, payer, signers) ==
    [instructions |-> <<instruction>>, payer |-> payer, signers |-> signers]


\* A ledger that is the ledger in hand under a new id.
LiteSVMNew_LedgerInHand(id) ==
    IF "accounts" \in DOMAIN svm THEN [svm EXCEPT !.id = id]
    ELSE [id |-> id, programs |-> {}, accounts |-> <<>>, history |-> <<>>]

\* LiteSVM::new(): a ledger with no program of the harness, no account of
\* the harness and no transaction; id tells the instances apart.
LiteSVMNew(id) ==
    [id |-> id, programs |-> {}, accounts |-> <<>>, history |-> <<>>]

\* svm.add_program(program_id, bytes)
AddProgram(ledger, program_id) ==
    [ledger EXCEPT !.programs = @ \cup {program_id}]

\* svm.set_account(pubkey, account) and svm.airdrop(pubkey, lamports)
SetAccount(ledger, pubkey, account) ==
    [ledger EXCEPT !.accounts = (pubkey :> account) @@ @]
Airdrop(ledger, pubkey, lamports) ==
    SetAccount(ledger, pubkey, Airdropped(lamports))

\* What the ledger answers to a transaction is its own business; the model
\* lets it succeed or fail as it likes and has it meter a figure that is
\* fixed by the instruction and by the outcome.
Results == {"Ok", "Err"}
Metered(tx, result) ==
    LET ix == tx.instructions[1]
        base == 1000 * ix.program_id[1] + 10 * Len(ix.accounts)
                    + (IF ix.data = <<>> THEN 0 ELSE 100 * (ix.data[1] + 1))
    IN  IF result = "Ok" THEN base ELSE base \div 2

\* svm.send_transaction(tx), answered with result.
SendTransaction(ledger, tx, result) ==
    [ledger EXCEPT !.history =
        Append(@, [tx |-> tx, result |-> result,
                   compute_units_consumed |-> Metered(tx, result)])]

\* The answer to the transaction sent last.
LastOutcome(ledger) == ledger.history[Len(ledger.history)]

\* The results the environment may still give: a failure counts as a fault.
MayFail == faults < MaxFaults
ResultsNow == IF MayFail THEN Results ELSE {"Ok"}
Faulted(result) == IF result = "Err" THEN faults + 1 ELSE faults

\* The lines of the report, and the lines of the error stream.
Banner(table) == [line |-> "banner", table |-> table]
Header(table) == [line |-> "header", table |-> table]
Rule(table) == [line |-> "rule", table |-> table]
Row(table, label, cu) ==
    [line |-> "row", table |-> table, label |-> label, cu |-> cu]
WriteRow(loop_cu, copy_cu, saved, permille) ==
    [line |-> "row", table |-> "write_bytes", loop_cu |-> loop_cu,
     copy_cu |-> copy_cu, saved |-> saved, permille |-> permille]
FailedToLoad(path) == [error |-> "Failed to load", what |-> path]
TransactionFailed(what) == [error |-> "Transaction failed", what |-> what]

\* What the match on send_transaction's answer evaluates to: the figure
\* forgotten when the transaction failed.
MatchSendTransaction_FailureAsZero(outcome) ==
    IF outcome.result = "Ok" THEN outcome.compute_units_consumed ELSE 0

\* What the match on send_transaction's answer evaluates to.
MatchSendTransaction(outcome) ==
    IF outcome.result = "Ok"
    THEN outcome.compute_units_consumed
    ELSE outcome.compute_units_consumed

\* Where run_token_benchmark goes on after the setup transaction, were its
\* failure to end the scenario.
AfterSetup_StopOnFailure(outcome) ==
    IF outcome.result = "Err" THEN "row" ELSE "send"

\* Where run_token_benchmark goes on after the setup transaction:
\* `let _ =` drops the answer.
AfterSetup(outcome) == "send"

\* Where main goes on after the report of a table.
AfterTable(table) ==
    IF table = "write_bytes" THEN [at |-> "banner", h |-> "token", i |-> 0]
    ELSE IF table = "token" THEN [at |-> "banner", h |-> "token_2022", i |-> 0]
    ELSE [at |-> "done", h |-> "none", i |-> 0]

HarnessInit ==
    /\ NoInstruction
    /\ NoFixture
    /\ pc = [at |-> "main", h |-> "write_bytes", i |-> 0]
    /\ entropy \in {[seed |-> s, drawn |-> 0] : s \in EntropySamples}
    /\ unique = 1
    /\ svm = [id |-> 0]
    /\ frame = [op |-> "none"]
    /\ stdout = <<>>
    /\ stderr = <<>>
    /\ faults = 0


\* main up to the call of benchmark_write_bytes.
Main ==
    /\ pc.at = "main"
    /\ stdout' = stdout \o <<Banner("write_bytes"), Header("write_bytes"),
                             Rule("write_bytes")>>
    /\ pc' = [at |-> "run_write", h |-> "write_bytes", i |-> 1]
    /\ UNCHANGED <<entropy, unique, svm, frame, stderr, faults>>
    /\ UNCHANGED <<program_vars, fixture_vars>>

\* The two calls of run_write_benchmark: the i-th measures this program.
WriteProgram(i) ==
    IF i = 1
    THEN [id |-> WRITE_LOOP_PROGRAM_ID, name |-> "write-loop",
          path |-> "target/deploy/write_loop.so"]
    ELSE [id |-> WRITE_COPY_PROGRAM_ID, name |-> "write-copy",
          path |-> "target/deploy/write_copy.so"]

\* The ledger of run_write_benchmark when its transaction is sent.
WriteLedger(id, program_id, payer, account_pubkey) ==
    SetAccount(
        Airdrop(AddProgram(LiteSVMNew(id), program_id), payer, Amount1e10),
        account_pubkey, Account(Amount1e6, Zeroed(100), program_id))

\* The transaction of run_write_benchmark.
WriteTransaction(program_id, payer, account_pubkey) ==
    Transaction(
        Instruction(program_id,
                    <<[pubkey |-> account_pubkey, is_signer |-> FALSE,
                       is_writable |-> TRUE]>>,
                    <<>>),
        payer, <<payer>>)

\* The frame of benchmark_write_bytes once the i-th call has returned cu.
WriteFrame(i, cu) ==
    IF i = 1 THEN [op |-> "write_bytes", loop_cu |-> cu]
    ELSE [op |-> "write_bytes", loop_cu |-> frame.loop_cu, copy_cu |-> cu]

\* One call of run_write_benchmark: the file does not load and the call
\* returns 0, or the transaction is sent and its figure returned.
RunWriteBenchmark ==
    /\ pc.at = "run_write"
    /\ pc' = IF pc.i = 1 THEN [pc EXCEPT !.i = 2]
             ELSE [pc EXCEPT !.at = "write_row"]
    /\ \/ /\ MayFail
          /\ faults' = faults + 1
          /\ stderr' = Append(stderr, FailedToLoad(WriteProgram(pc.i).path))
          /\ frame' = WriteFrame(pc.i, 0)
          /\ UNCHANGED <<entropy, unique, svm>>
       \/ \E result \in ResultsNow :
            LET payer == KeypairNew(entropy.seed, entropy.drawn + 1)
                account_pubkey == NewUnique(unique)
                program_id == WriteProgram(pc.i).id
                ledger == SendTransaction(
                    WriteLedger(svm.id + 1, program_id, payer, account_pubkey),
                    WriteTransaction(program_id, payer, account_pubkey),
                    result)
            IN  /\ entropy' = [entropy EXCEPT !.drawn = @ + 1]
                /\ unique' = unique + 1
                /\ svm' = ledger
                /\ faults' = Faulted(result)
                /\ stderr' = IF result = "Ok" THEN stderr
                             ELSE Append(stderr,
                                      TransactionFailed(WriteProgram(pc.i).name))
                /\ frame' = WriteFrame(pc.i,
                                MatchSendTransaction(LastOutcome(ledger)))
    /\ UNCHANGED stdout
    /\ UNCHANGED <<program_vars, fixture_vars>>

\* loop_cu.saturating_sub(copy_cu), and the saving in tenths of a percent,
\* rounded as {:.1} rounds.
SaturatingSub(a, b) == IF a >= b THEN a - b ELSE 0
Permille(saved, loop_cu) ==
    IF loop_cu > 0 THEN (2000 * saved + loop_cu) \div (2 * loop_cu) ELSE 0

\* benchmark_write_bytes after its two calls: the row of the table.
BenchmarkWriteBytes ==
    /\ pc.at = "write_row"
    /\ stdout' = Append(stdout,
           WriteRow(frame.loop_cu, frame.copy_cu,
                    SaturatingSub(frame.loop_cu, frame.copy_cu),
                    Permille(SaturatingSub(frame.loop_cu, frame.copy_cu),
                             frame.loop_cu)))
    /\ pc' = AfterTable("write_bytes")
    /\ UNCHANGED <<entropy, unique, svm, frame, stderr, faults>>
    /\ UNCHANGED <<program_vars, fixture_vars>>

\* main prints the banner of a token benchmark and calls it.
MainBanner ==
    /\ pc.at = "banner"
    /\ stdout' = Append(stdout, Banner(pc.h))
    /\ pc' = [pc EXCEPT !.at = "load"]
    /\ UNCHANGED <<entropy, unique, svm, frame, stderr, faults>>
    /\ UNCHANGED <<program_vars, fixture_vars>>

\* benchmark_token_ops / benchmark_token_2022_ops up to the first run: the
\* file does not load and the function returns, or the header is printed.
BenchmarkTokenOpsLoad ==
    /\ pc.at = "load"
    /\ \/ /\ MayFail
          /\ faults' = faults + 1
          /\ stderr' = Append(stderr, FailedToLoad(ProgramPath(pc.h)))
          /\ pc' = AfterTable(pc.h)
          /\ UNCHANGED stdout
       \/ /\ stdout' = stdout \o <<Header(pc.h), Rule(pc.h)>>
          /\ pc' = [pc EXCEPT !.at = "new", !.i = 1]
          /\ UNCHANGED <<stderr, faults>>
    /\ UNCHANGED <<entropy, unique, svm, frame>>
    /\ UNCHANGED <<program_vars, fixture_vars>>


\* The operations whose arm makes a key of its own (close_token, new_mint,
\* new_token, new_authority), and the account the arm stores at it.
HasExtraKey(op) ==
    op \in {"CloseAccount", "InitializeMint", "InitializeMint2",
            "InitializeAccount", "InitializeAccount2", "InitializeAccount3",
            "SetAuthority"}
\* The account to close made with the balance of the source account.
ExtraAccount_Funded(op, f, tp) ==
    IF op = "CloseAccount"
    THEN <<Account(Amount1e9,
                   create_token_account_data(f.mint, f.authority, Amount1e9),
                   tp)>>
    ELSE IF op \in {"InitializeMint", "InitializeMint2"}
    THEN <<Account(Amount1e9, Zeroed(MintLen), tp)>>
    ELSE IF op \in {"InitializeAccount", "InitializeAccount2",
                    "InitializeAccount3"}
    THEN <<Account(Amount1e9, Zeroed(TokenAccountLen), tp)>>
    ELSE <<>>
ExtraAccount(op, f, tp) ==
    IF op = "CloseAccount"
    THEN <<Account(Amount1e9,
                   create_token_account_data(f.mint, f.authority, AmountZero),
                   tp)>>
    ELSE IF op \in {"InitializeMint", "InitializeMint2"}
    THEN <<Account(Amount1e9, Zeroed(MintLen), tp)>>
    ELSE IF op \in {"InitializeAccount", "InitializeAccount2",
                    "InitializeAccount3"}
    THEN <<Account(Amount1e9, Zeroed(TokenAccountLen), tp)>>
    ELSE <<>>

\* The keys run_token_benchmark makes for op, from the key pairs drawn and
\* the keys counted so far.
TokenFrame(h, op, seed, drawn, counted) ==
    [h |-> h, op |-> op, cu |-> 0,
     payer |-> KeypairNew(seed, drawn + 1),
     authority |-> KeypairNew(seed, drawn + 2),
     mint |-> NewUnique(counted),
     source_token |-> NewUnique(counted + 1),
     dest_token |-> NewUnique(counted + 2),
     delegate |-> NewUnique(counted + 3),
     extra |-> IF HasExtraKey(op) THEN NewUnique(counted + 4) ELSE <<>>]

\* The ledger run_token_benchmark has built when it sends its first
\* transaction: both programs, the two airdrops, mint, source, destination
\* and the account of the operation's own.
TokenLedger(id, f) ==
    LET tp == TokenProgramId(f.h)
        l1 == AddProgram(AddProgram(LiteSVMNew(id), tp),
                         BenchmarkProgramId(f.h))
        l2 == Airdrop(Airdrop(l1, f.payer, Amount1e10), f.authority, Amount1e10)
        l3 == SetAccount(l2, f.mint,
                  Account(Amount1e9,
                          create_mint_data(f.authority, <<f.authority>>, 9,
                                           Amount1e9),
                          tp))
        l4 == SetAccount(l3, f.source_token,
                  Account(Amount1e9,
                          create_token_account_data(f.mint, f.authority,
                                                    Amount1e9),
                          tp))
        l5 == SetAccount(l4, f.dest_token,
                  Account(Amount1e9,
                          create_token_account_data(f.mint, f.authority,
                                                    AmountZero),
                          tp))
    IN  IF ExtraAccount(f.op, f, tp) = <<>> THEN l5
        ELSE SetAccount(l5, f.extra, ExtraAccount(f.op, f, tp)[1])

\* run_token_benchmark / run_token_2022_benchmark from LiteSVM::new() to the
\* first transaction of the operation's arm.
RunTokenBenchmarkNew ==
    /\ pc.at = "new"
    /\ frame' = TokenFrame(pc.h, BenchmarkOrder[pc.i], entropy.seed,
                           entropy.drawn, unique)
    /\ entropy' = [entropy EXCEPT !.drawn = @ + 2]
    /\ unique' = unique + (IF HasExtraKey(BenchmarkOrder[pc.i]) THEN 5 ELSE 4)
    /\ svm' = TokenLedger(svm.id + 1, frame')
    /\ pc' = [pc EXCEPT !.at = IF HasSetup(BenchmarkOrder[pc.i])
                               THEN "setup" ELSE "send"]
    /\ UNCHANGED <<stdout, stderr, faults>>
    /\ UNCHANGED <<program_vars, fixture_vars>>

\* The setup transaction of Revoke and of ThawAccount, its answer dropped.
RunTokenBenchmarkSetup ==
    /\ pc.at = "setup"
    /\ \E result \in ResultsNow :
        /\ svm' = SendTransaction(svm,
               Transaction(
                   Instruction(BenchmarkProgramId(frame.h),
                               SetupAccounts(frame.op, frame,
                                             TokenProgramId(frame.h)),
                               SetupData(frame.op)),
                   frame.payer, <<frame.payer, frame.authority>>),
               result)
        /\ faults' = Faulted(result)
        /\ pc' = [pc EXCEPT !.at = AfterSetup(LastOutcome(svm'))]
    /\ UNCHANGED <<entropy, unique, frame, stdout, stderr>>
    /\ UNCHANGED <<program_vars, fixture_vars>>

\* The measured transaction: sent, and the figure of its answer returned.
RunTokenBenchmarkSend ==
    /\ pc.at = "send"
    /\ \E result \in ResultsNow :
        /\ svm' = SendTransaction(svm,
               Transaction(
                   Instruction(BenchmarkProgramId(frame.h),
                               OpAccounts(frame.op, frame,
                                          TokenProgramId(frame.h)),
                               OpData(frame.op)),
                   frame.payer,
                   IF NeedsAuthoritySigner(frame.op)
                   THEN <<frame.payer, frame.authority>>
                   ELSE <<frame.payer>>),
               result)
        /\ faults' = Faulted(result)
        /\ stderr' = IF result = "Ok" THEN stderr
                     ELSE Append(stderr,
                              TransactionFailed(ToString(AsU8(frame.op))))
        /\ frame' = [frame EXCEPT !.cu = MatchSendTransaction(LastOutcome(svm'))]
    /\ pc' = [pc EXCEPT !.at = "row"]
    /\ UNCHANGED <<entropy, unique, stdout>>
    /\ UNCHANGED <<program_vars, fixture_vars>>

\* The row of the operation just measured, then the next operation or the
\* end of the table.
BenchmarkTokenOpsRow ==
    /\ pc.at = "row"
    /\ stdout' = Append(stdout, Row(pc.h, BenchmarkOrder[pc.i], frame.cu))
    /\ pc' = IF pc.i < Len(BenchmarkOrder)
             THEN [pc EXCEPT !.at = "new", !.i = @ + 1]
             ELSE AfterTable(pc.h)
    /\ UNCHANGED <<entropy, unique, svm, frame, stderr, faults>>
    /\ UNCHANGED <<program_vars, fixture_vars>>

HarnessNext ==
    \/ Main
    \/ RunWriteBenchmark
    \/ BenchmarkWriteBytes
    \/ MainBanner
    \/ BenchmarkTokenOpsLoad
    \/ RunTokenBenchmarkNew
    \/ RunTokenBenchmarkSetup
    \/ RunTokenBenchmarkSend
    \/ BenchmarkTokenOpsRow

HarnessSpec == HarnessInit /\ [][HarnessNext]_vars

------------------------------------------------------------------------------
(* Claims about the harness. *)

\* The benchmark program a harness measures.
ProgramOf(h) == IF h = "token" THEN "token_ops" ELSE "token_ops_2022"

\* The n-th transaction sent to the ledger in hand: its instruction, the
\* operation the benchmark program makes of it, and the key it gets in a
\* role of that operation.
Sent(n) == svm.history[n].tx.instructions[1]
SentKind(n) == Arm(ProgramOf(frame.h), Sent(n).data).kind
SentKey(n, role) ==
    Sent(n).accounts[
        BindingOf(ProgramOf(frame.h), Sent(n).data[1], FALSE)[role] + 1].pubkey

\* A token benchmark run is in hand, for this operation.
TokenRun == frame.op \in {TokenOp[i] : i \in 1 .. Len(TokenOp)}
Scenario(op) == frame.op = op

\* The transactions of the ledger in hand are, in this order, of these kinds.
SentKinds(kinds) ==
    /\ Len(svm.history) = Len(kinds)
    /\ \A n \in 1 .. Len(kinds) : SentKind(n) = kinds[n]

------------------------------------------------------------------------------
(* C13 *)

\* C13: in the Revoke scenario an Approve on the same source account and
\* the scenario's delegate is sent to the scenario's ledger before the
\* measured Revoke, and in the ThawAccount scenario a FreezeAccount on the
\* same account and mint before the measured ThawAccount; the setup is
\* never sent after the measured instruction, and the ledger of no other
\* scenario gets a second instruction.
C13_SetupPrecedesMeasured ==
    /\ Scenario("Revoke") =>
           /\ pc.at = "setup" => svm.history = <<>>
           /\ pc.at = "send" =>
                  /\ SentKinds(<<"Approve">>)
                  /\ SentKey(1, "source") = frame.source_token
                  /\ SentKey(1, "delegate") = frame.delegate
           /\ pc.at \notin {"setup", "send"} =>
                  /\ SentKinds(<<"Approve", "Revoke">>)
                  /\ SentKey(1, "source") = SentKey(2, "source")
                  /\ SentKey(1, "delegate") = frame.delegate
    /\ Scenario("ThawAccount") =>
           /\ pc.at = "setup" => svm.history = <<>>
           /\ pc.at = "send" =>
                  /\ SentKinds(<<"FreezeAccount">>)
                  /\ SentKey(1, "account") = frame.source_token
                  /\ SentKey(1, "mint") = frame.mint
           /\ pc.at \notin {"setup", "send"} =>
                  /\ SentKinds(<<"FreezeAccount", "ThawAccount">>)
                  /\ SentKey(1, "account") = SentKey(2, "account")
                  /\ SentKey(1, "mint") = SentKey(2, "mint")
    /\ (TokenRun /\ ~HasSetup(frame.op)) => Len(svm.history) <= 1

\* The Token-2022 harness has sent the Approve and the Revoke, both accepted.
C13_Witness ==
    /\ Scenario("Revoke") /\ frame.h = "token_2022" /\ pc.at = "row"
    /\ SentKinds(<<"Approve", "Revoke">>)
    /\ svm.history[1].result = "Ok" /\ svm.history[2].result = "Ok"
    /\ svm.history[1].tx.instructions[1].accounts[1].pubkey
           = svm.history[2].tx.instructions[1].accounts[1].pubkey

------------------------------------------------------------------------------
(* C14 *)

\* The rows of a table printed so far, and their labels.
RowsOf(table) ==
    SelectSeq(stdout, LAMBDA l : l.line = "row" /\ l.table = table)
LabelsOf(table) ==
    LET rows == RowsOf(table) IN [n \in 1 .. Len(rows) |-> rows[n].label]

IsPrefix(s, t) == Len(s) <= Len(t) /\ s = SubSeq(t, 1, Len(s))

\* main is past the call that prints this table.
TableOver(table) ==
    \/ pc.at = "done"
    \/ table = "token" /\ pc.h = "token_2022"
    \/ table = "write_bytes" /\ pc.h \in Harnesses

\* The file of a token benchmark was reported as not loading.
LoadFailed(h) ==
    \E n \in 1 .. Len(stderr) : stderr[n] = FailedToLoad(ProgramPath(h))

\* The order the rows are claimed to have: opcodes 0 .. 14.
CatalogOrder == [n \in 1 .. 15 |-> CatalogName(n - 1)]

\* The order the rows have.
PrintedOrder ==
    <<"Transfer", "TransferChecked", "MintTo", "Burn", "Approve", "Revoke",
      "FreezeAccount", "ThawAccount", "CloseAccount", "InitializeMint",
      "InitializeMint2", "InitializeAccount", "InitializeAccount2",
      "InitializeAccount3", "SetAuthority">>

------------------------------------------------------------------------------
(* C15 *)

\* A table is printed in full: its header and one row per figure.
FullTable(table) ==
    /\ \E n \in 1 .. Len(stdout) : stdout[n] = Header(table)
    /\ Len(RowsOf(table)) = IF table = "write_bytes" THEN 1 ELSE 15

\* C15: errors never abort a report: in every run, also when a program file
\* does not load, a full table with every row is printed once the benchmark
\* is over, for write_bytes and for both token benchmarks, and the figures
\* of a program that did not load are 0.
C15_FullTableAlways ==
    \A table \in {"write_bytes"} \cup Harnesses :
        TableOver(table) =>
            /\ FullTable(table)
            /\ (table \in Harnesses /\ LoadFailed(table)) =>
                   \A n \in 1 .. 15 : RowsOf(table)[n].cu = 0

------------------------------------------------------------------------------
(* C16 *)

\* The row printed last in a table.
LastRow(table) == LET rows == RowsOf(table) IN rows[Len(rows)]

\* The measured transaction of the run in hand has failed.
MeasuredFailed ==
    /\ TokenRun /\ pc.at \notin {"setup", "send"}
    /\ LastOutcome(svm).result = "Err"

\* A call of run_write_benchmark has returned and its file had loaded.
WriteReturned(i) ==
    /\ frame.op = "write_bytes"
    /\ IF i = 1 THEN pc.at = "run_write" /\ pc.i = 2 ELSE pc.at = "write_row"
    /\ \A n \in 1 .. Len(stderr) :
           stderr[n] # FailedToLoad(WriteProgram(i).path)

\* Some step of the harness can be taken: each position of main but the
\* last has its action, and the ledger has an answer to every transaction.
Enabled ==
    /\ pc.at \in {"main", "run_write", "write_row", "banner", "load", "new",
                  "setup", "send", "row"}
    /\ ResultsNow # {}
    /\ pc.at \in {"new", "row"} => pc.i \in 1 .. Len(BenchmarkOrder)

\* C16: when the measured transaction fails, the run returns the figure the
\* failure carries, its row is printed with that figure, and the benchmark
\* goes on: a step is enabled until main is over, and a table whose file
\* loaded ends with all its rows whatever failed.
C16_FailureYieldsFigureAndGoesOn ==
    /\ (TokenRun /\ pc.at = "row") =>
           frame.cu = LastOutcome(svm).compute_units_consumed
    /\ (TokenRun /\ pc.at \notin {"setup", "send", "row"}) =>
           LastRow(frame.h) =
               Row(frame.h, frame.op, LastOutcome(svm).compute_units_consumed)
    /\ WriteReturned(1) =>
           frame.loop_cu = LastOutcome(svm).compute_units_consumed
    /\ WriteReturned(2) =>
           frame.copy_cu = LastOutcome(svm).compute_units_consumed
    /\ pc.at # "done" => Enabled
    /\ \A h \in Harnesses :
           (TableOver(h) /\ ~LoadFailed(h)) => Len(RowsOf(h)) = 15

\* The measured Transfer of the classic harness failed, its row shows the
\* failure's figure, and every later row of both tables was printed.
C16_Witness ==
    /\ pc.at = "done"
    /\ stderr = <<TransactionFailed("0")>>
    /\ Len(RowsOf("token")) = 15 /\ Len(RowsOf("token_2022")) = 15
    /\ RowsOf("token")[1].cu = 2570

------------------------------------------------------------------------------
(* C19 *)

\* The operations measured by one instruction, and those measured after a
\* setup instruction.
IndependentOps ==
    {"Transfer", "MintTo", "Burn", "Approve", "FreezeAccount",
     "TransferChecked", "CloseAccount", "InitializeAccount",
     "InitializeAccount2", "InitializeAccount3", "InitializeMint",
     "InitializeMint2", "SetAuthority"}
DependentOps == {"Revoke", "ThawAccount"}

\* The run in hand has sent all it sends.
RunOver == TokenRun /\ pc.at \notin {"setup", "send"}

\* C19: one benchmark run sends exactly one instruction to its ledger for
\* an independent operation and exactly two, setup then measured, for
\* Revoke and ThawAccount; every transaction holds one instruction, no
\* instruction is sent twice, and a failure is followed by no second try.
C19_OneSubmissionEach ==
    TokenRun =>
        /\ \A n \in 1 .. Len(svm.history) :
               Len(svm.history[n].tx.instructions) = 1
        /\ \A m, n \in 1 .. Len(svm.history) : m # n => Sent(m) # Sent(n)
        /\ (frame.op \in IndependentOps /\ pc.at = "send") =>
               svm.history = <<>>
        /\ (frame.op \in DependentOps /\ pc.at = "setup") =>
               svm.history = <<>>
        /\ (frame.op \in DependentOps /\ pc.at = "send") =>
               Len(svm.history) = 1
        /\ (frame.op \in IndependentOps /\ RunOver) =>
               SentKinds(<<frame.op>>)
        /\ (frame.op \in DependentOps /\ RunOver) =>
               /\ Len(svm.history) = 2
               /\ SentKind(2) = frame.op

\* The measured Transfer failed and the run returned: one transaction.
C19_Witness ==
    /\ Scenario("Transfer") /\ pc.at = "row"
    /\ Len(svm.history) = 1
    /\ svm.history[1].result = "Err"

------------------------------------------------------------------------------
(* C20 *)

\* The setup transaction of the scenario in hand has failed.
SetupFailed ==
    /\ TokenRun /\ frame.op \in DependentOps
    /\ Len(svm.history) >= 1
    /\ svm.history[1].result = "Err"

\* C20: when the setup instruction of Revoke or of ThawAccount fails, the
\* failure is not reported (it is a fault with no line on stderr) and the
\* scenario goes on: the measured instruction is sent next, and the figure
\* returned and printed is the figure of the measured instruction.
C20_SetupFailureSwallowed ==
    SetupFailed =>
        /\ Len(stderr) < faults
        /\ Len(svm.history) = 1 => pc.at = "send"
        /\ RunOver =>
               /\ Len(svm.history) = 2
               /\ SentKind(2) = frame.op
               /\ frame.cu = svm.history[2].compute_units_consumed
        /\ (RunOver /\ pc.at # "row") =>
               LastRow(frame.h).cu = svm.history[2].compute_units_consumed

\* The FreezeAccount before ThawAccount failed; the ThawAccount was sent and
\* accepted and its figure, not the setup's, is the one returned.
C20_Witness ==
    /\ Scenario("ThawAccount") /\ pc.at = "row"
    /\ SetupFailed
    /\ svm.history[2].result = "Ok"
    /\ stderr = <<>>
    /\ frame.cu = svm.history[2].compute_units_consumed
    /\ frame.cu # svm.history[1].compute_units_consumed

------------------------------------------------------------------------------
(* C18 *)

\* The keys the run in hand would have made had the process drawn its key
\* pairs from another seed, everything else being the same.
FrameUnder(seed) ==
    TokenFrame(frame.h, frame.op, seed, entropy.drawn - 2,
               unique - (IF HasExtraKey(frame.op) THEN 5 ELSE 4))

\* The measured transaction of a run with these keys.
MeasuredTransaction(f) ==
    Transaction(
        Instruction(BenchmarkProgramId(f.h),
                    OpAccounts(f.op, f, TokenProgramId(f.h)), OpData(f.op)),
        f.payer,
        IF NeedsAuthoritySigner(f.op) THEN <<f.payer, f.authority>>
        ELSE <<f.payer>>)

\* C18: two independent runs of the harness, with the same fixed amounts,
\* send identical instructions to ledgers in identical states (and so get
\* identical figures from a ledger that is a function of its inputs): the
\* measured transaction and the accounts of the ledger are those of the run
\* under any other seed.
C18_RunsSubmitIdentically ==
    (TokenRun /\ pc.at = "row") =>
        \A seed \in EntropySamples :
            /\ LastOutcome(svm).tx = MeasuredTransaction(FrameUnder(seed))
            /\ svm.accounts = TokenLedger(svm.id, FrameUnder(seed)).accounts

------------------------------------------------------------------------------
(* Further claims about the two programs. *)

\* The optional role of opcodes 9, 10 and 14 and the index of its account.
OptionalRole(d) == IF d = 14 THEN "new_authority" ELSE "freeze_authority"
OptionalSlot(d) == IF d = 9 THEN 3 ELSE 2

\* Two addresses, or two absent addresses, are the same.
SameAddress(a, b) == ToString(a) = ToString(b)

------------------------------------------------------------------------------
(* C24 *)

\* C24: for opcodes 9, 10 and 14 in both programs, with the flag clear the
\* operation carries no freeze authority / new authority and no account is
\* read in that role; with the flag set it carries the address of the
\* account at the optional slot (index 3 for opcode 9, index 2 for opcodes
\* 10 and 14); the mint authority is the address of account 2 (opcode 9) or
\* of account 1 (opcode 10) either way.
C24_OptionalAuthorityFromSlot ==
    \A p \in Programs :
        (/\ HasOpcode /\ Discriminator \in {9, 10, 14}
         /\ RunOf(p).status = "returned") =>
            /\ ~FlagSet =>
                   /\ IsNone(InvokedOp(p).addresses[OptionalRole(Discriminator)])
                   /\ OptionalRole(Discriminator) \notin DOMAIN RunOf(p).binding
            /\ FlagSet =>
                   /\ OptionalRole(Discriminator) \in DOMAIN RunOf(p).binding
                   /\ RunOf(p).binding[OptionalRole(Discriminator)]
                          = OptionalSlot(Discriminator)
                   /\ OptionalSlot(Discriminator) < Len(accounts)
                   /\ SameAddress(
                          InvokedOp(p).addresses[OptionalRole(Discriminator)],
                          accounts[OptionalSlot(Discriminator) + 1])
            /\ Discriminator = 9 =>
                   /\ RunOf(p).binding["mint_authority"] = 2
                   /\ SameAddress(InvokedOp(p).addresses["mint_authority"],
                                  accounts[2 + 1])
            /\ Discriminator = 10 =>
                   /\ RunOf(p).binding["mint_authority"] = 1
                   /\ SameAddress(InvokedOp(p).addresses["mint_authority"],
                                  accounts[1 + 1])

\* InitializeMint2 with the flag set: both programs gave it the address of
\* account 2 as freeze authority and that of account 1 as mint authority.
C24_Witness ==
    /\ HasOpcode /\ Discriminator = 10 /\ FlagSet
    /\ \A p \in Programs :
           /\ RunOf(p).status = "returned"
           /\ InvokedOp(p).addresses["freeze_authority"] = AddressAt(2)
           /\ InvokedOp(p).addresses["mint_authority"] = AddressAt(1)

------------------------------------------------------------------------------
(* C28 *)

\* The role indices of opcode d when the flag byte is b.
BindingWithFlag(program, d, b) ==
    IndexByRole(Named(Arm(program, <<d, 0, b>>).steps, {"view", "addr"}))

\* The instruction in hand is one of opcode 9, 10 or 14 with its three
\* bytes and the longest account list.
FlaggedInstruction ==
    /\ HasOpcode /\ Discriminator \in {9, 10, 14}
    /\ Len(instruction_data) = 3
    /\ Len(accounts) = MaxAccounts

\* C28: in both programs the optional-account flag of opcodes 9, 10 and 14
\* is set for every nonzero byte and clear for 0 only: a nonzero byte makes
\* the program read the optional account and give its address to the
\* operation, and moves the extended program's token-program index forward
\* by exactly one, whatever the byte's value.
C28_AnyNonzeroFlagIsSet ==
    \A p \in Programs :
        /\ (/\ HasOpcode /\ Discriminator \in {9, 10, 14}
            /\ RunOf(p).status = "returned") =>
               /\ (instruction_data[3] # 0) <=>
                      (OptionalRole(Discriminator) \in DOMAIN RunOf(p).binding)
               /\ (instruction_data[3] # 0) <=>
                      ~IsNone(InvokedOp(p).addresses[OptionalRole(Discriminator)])
               /\ p = "token_ops_2022" =>
                      RunOf(p).binding["token_program"] =
                          IF instruction_data[3] = 0
                          THEN FlagClearIndex(Discriminator)
                          ELSE FlagClearIndex(Discriminator) + 1
        /\ (FlaggedInstruction /\ Done(p)) =>
               \A b \in 0 .. 255 :
                   LET binding == BindingWithFlag(p, Discriminator, b)
                   IN  /\ (b # 0) <=>
                              (OptionalRole(Discriminator) \in DOMAIN binding)
                       /\ b # 0 => binding[OptionalRole(Discriminator)]
                                       = OptionalSlot(Discriminator)
                       /\ p = "token_ops_2022" =>
                              binding["token_program"] =
                                  FlagClearIndex(Discriminator)
                                      + (IF b = 0 THEN 0 ELSE 1)

\* InitializeMint with flag byte 255: both programs took account 3 as freeze
\* authority and the extended program its token program from index 4.
C28_Witness ==
    /\ HasOpcode /\ Discriminator = 9
    /\ Len(instruction_data) >= 3 /\ instruction_data[3] = 255
    /\ \A p \in Programs :
           /\ RunOf(p).status = "returned"
           /\ RunOf(p).binding["freeze_authority"] = 3
    /\ token_ops_2022.binding["token_program"] = 4

------------------------------------------------------------------------------
(* C25 *)

\* The opcodes that carry an amount.
AmountOpcodes == {0, 1, 2, 3, 8}

\* A u64 in four base-65536 digits: every digit in range.
IsU64(n) == Len(n) = 4 /\ \A i \in 1 .. 4 : n[i] \in 0 .. 65535

\* The buffer the harness builds for an amount: the discriminator, then
\* amount.to_le_bytes(), then for opcode 8 the decimals.
Encoded(d, amount, decimals) ==
    (<<d>> \o U64ToLeBytes(amount)) \o (IF d = 8 THEN <<decimals>> ELSE <<>>)

\* C25: for opcodes 0, 1, 2, 3 and 8 the amount of the operation is the
\* 64-bit little-endian value of instruction bytes 1..8, nothing cut and
\* nothing wrapped: written back as little-endian bytes it is those eight
\* bytes; for opcode 8 decimals is byte 9; and an amount encoded as the
\* harness encodes it is decoded to the same amount.
C25_AmountIsLittleEndianU64 ==
    \A p \in Programs :
        (/\ HasOpcode /\ Discriminator \in AmountOpcodes
         /\ RunOf(p).status = "returned") =>
            /\ IsU64(InvokedOp(p).fields["amount"])
            /\ U64ToLeBytes(InvokedOp(p).fields["amount"])
                   = SubSeq(instruction_data, 2, 9)
            /\ \A n \in 1 .. 4 :
                   InvokedOp(p).fields["amount"][n] =
                       instruction_data[2 * n] + 256 * instruction_data[2 * n + 1]
            /\ Discriminator = 8 =>
                   InvokedOp(p).fields["decimals"] = instruction_data[9 + 1]
            /\ \A amount \in U64Samples :
                   \A o \in Operations(
                                Arm(p, Encoded(Discriminator, amount, 9)),
                                accounts, Encoded(Discriminator, amount, 9)) :
                       o.fields["amount"] = amount

\* TransferChecked with all eight amount bytes 255: both programs gave the
\* operation 2^64 - 1 and decimals 255.
C25_Witness ==
    /\ HasOpcode /\ Discriminator = 8
    /\ \A p \in Programs :
           /\ RunOf(p).status = "returned"
           /\ InvokedOp(p).fields["amount"] = <<65535, 65535, 65535, 65535>>
           /\ InvokedOp(p).fields["decimals"] = 255

------------------------------------------------------------------------------
(* C21 *)

\* The names of a run's keys, and those of them the run stores an account
\* at before its first transaction.
KeyRoles ==
    {"payer", "authority", "mint", "source_token", "dest_token", "delegate",
     "extra"}
AccountRoles(f) ==
    {"payer", "authority", "mint", "source_token", "dest_token"}
        \cup (IF ExtraAccount(f.op, f, TokenProgramId(f.h)) = <<>>
              THEN {} ELSE {"extra"})

\* The frame the operation of f would have were it the first thing the
\* process ran, and the ledger it would start from.
FirstFrame(f, seed) == TokenFrame(f.h, f.op, seed, 0, 1)

\* The offsets a key is stored at in a mint record and in a token account
\* record, and data with every key of f at such an offset replaced by the
\* key of the same name in g.
KeyOffsets == <<0, 4, 32, 50>>
RekeyAt(data, o, f, g) ==
    LET key == SubSeq(data, o + 1, o + PubkeyLen)
        named == {r \in KeyRoles : f[r] = key}
    IN  IF o + PubkeyLen > Len(data) \/ named = {} THEN data
        ELSE (SubSeq(data, 1, o) \o g[CHOOSE r \in named : TRUE])
                 \o SubSeq(data, o + PubkeyLen + 1, Len(data))
Rekey(data, f, g) ==
    LET d1 == RekeyAt(data, KeyOffsets[1], f, g)
        d2 == RekeyAt(d1, KeyOffsets[2], f, g)
        d3 == RekeyAt(d2, KeyOffsets[3], f, g)
    IN  RekeyAt(d3, KeyOffsets[4], f, g)

\* A token run stands before its first transaction.
AtStart ==
    /\ TokenRun
    /\ pc.at = "setup" \/ (pc.at = "send" /\ ~HasSetup(frame.op))

\* C21 as stated: the ledger an operation starts from is the same whatever
\* was measured before it: it is the ledger the operation would start from
\* had nothing run before it.
C21_SameStartLedger ==
    AtStart =>
        svm.accounts
            = TokenLedger(svm.id, FirstFrame(frame, entropy.seed)).accounts

\* C21, amended: every measured operation starts on a ledger of its own, that
\* holds no transaction, the two programs of its harness and exactly the
\* accounts its own run stored, at keys drawn for this run after every key
\* drawn before; what those accounts hold is what they would hold had
\* nothing run before, once this run's keys are put for that run's keys.
C21_OwnLedgerUpToKeys ==
    AtStart =>
        LET first == FirstFrame(frame, entropy.seed)
            start == TokenLedger(1, first)
            drew == IF HasExtraKey(frame.op) THEN 5 ELSE 4
        IN  /\ svm.history = <<>>
            /\ svm.programs
                   = {TokenProgramId(frame.h), BenchmarkProgramId(frame.h)}
            /\ DOMAIN svm.accounts = {frame[r] : r \in AccountRoles(frame)}
            /\ frame.mint = NewUnique(unique - drew)
            /\ frame.authority = KeypairNew(entropy.seed, entropy.drawn)
            /\ frame.payer = KeypairNew(entropy.seed, entropy.drawn - 1)
            /\ \A r \in AccountRoles(frame) :
                   [svm.accounts[frame[r]] EXCEPT
                       !.data = Rekey(@, frame, first)]
                       = start.accounts[first[r]]

\* ThawAccount of the extended harness stands before its setup transaction,
\* fourteen runs of the classic harness and seven of its own behind it.
C21_Witness ==
    /\ AtStart /\ Scenario("ThawAccount") /\ frame.h = "token_2022"
    /\ pc.at = "setup"
    /\ frame.mint # FirstFrame(frame, entropy.seed).mint
    /\ Len(svm.accounts[frame.source_token].data) = TokenAccountLen

------------------------------------------------------------------------------
(* C22 *)

\* A token account record as spl_token reads it: the fields at their
\* offsets.
UnpackAccount(data) ==
    [mint |-> SubSeq(data, 1, 32),
     owner |-> SubSeq(data, 33, 64),
     amount |-> U64FromLeBytes(SubSeq(data, 65, 72)),
     state |-> data[109]]

\* The keys of the accounts every scenario shares.
SharedTokenAccounts == {frame.source_token, frame.dest_token}

\* C22: in the CloseAccount scenario the account sent in the role of the
\* account to close is a token account the scenario made for itself, the
\* last key drawn, initialized, of the scenario's mint and authority, with
\* balance zero; it is neither the shared source nor the shared destination
\* account; neither of these is in the instruction's account list, and the
\* source account holds its fixture record (balance 1,000,000,000) from the
\* start of the scenario to its row.
C22_CloseAccountOnItsOwnAccount ==
    (TokenRun /\ Scenario("CloseAccount")) =>
        /\ svm.accounts[frame.source_token]
               = Account(Amount1e9,
                         create_token_account_data(frame.mint, frame.authority,
                                                   Amount1e9),
                         TokenProgramId(frame.h))
        /\ frame.extra = NewUnique(unique - 1)
        /\ frame.extra \notin SharedTokenAccounts \cup {frame.mint, frame.delegate}
        /\ Len(svm.accounts[frame.extra].data) = TokenAccountLen
        /\ UnpackAccount(svm.accounts[frame.extra].data)
               = [mint |-> frame.mint, owner |-> frame.authority,
                  amount |-> AmountZero, state |-> 1]
        /\ \A n \in 1 .. Len(svm.history) :
               /\ SentKind(n) = "CloseAccount"
               /\ SentKey(n, "account") = frame.extra
               /\ \A i \in 1 .. Len(Sent(n).accounts) :
                      Sent(n).accounts[i].pubkey \notin SharedTokenAccounts

\* The CloseAccount of the extended harness has been sent and answered.
C22_Witness ==
    /\ TokenRun /\ Scenario("CloseAccount") /\ frame.h = "token_2022"
    /\ pc.at = "row"
    /\ Len(svm.history) = 1
    /\ SentKey(1, "account") = frame.extra

------------------------------------------------------------------------------
(* C23 *)

\* The operation the n-th transaction of the scenario in hand is meant to
\* be: the setup of Revoke is an Approve, that of ThawAccount a
\* FreezeAccount, every other transaction the scenario's operation.
SentName(n) ==
    IF HasSetup(frame.op) /\ n = 1
    THEN (IF frame.op = "Revoke" THEN "Approve" ELSE "FreezeAccount")
    ELSE frame.op

\* The addresses of the n-th instruction's accounts, as the program gets them.
SentAddresses(n) ==
    [i \in 1 .. Len(Sent(n).accounts) |-> Sent(n).accounts[i].pubkey]

\* The flag of the n-th instruction, for the catalog.
SentFlag(n) == Sent(n).data[1] \in {9, 10, 14} /\ NonZero(Sent(n).data, 2)

\* The key the harness means for a role of an operation, by the names of
\* its variables: close_token, new_mint and new_token are the arm's own
\* key, the lamports of a closed account go to the authority.
RoleKey(name, role, f, tp) ==
    CASE role \in {"from", "source"} -> f.source_token
      [] role = "to" -> f.dest_token
      [] role \in {"authority", "mint_authority", "freeze_authority", "owner",
                   "destination"} -> f.authority
      [] role = "delegate" -> f.delegate
      [] role = "rent_sysvar" -> RENT_ID
      [] role = "new_authority" -> f.extra
      [] role = "token_program" -> tp
      [] role = "mint" ->
            IF name \in {"InitializeMint", "InitializeMint2"}
            THEN f.extra ELSE f.mint
      [] role = "account" ->
            CASE name = "MintTo" -> f.dest_token
              [] name \in {"Burn", "FreezeAccount", "ThawAccount"} ->
                    f.source_token
              [] name = "SetAuthority" -> f.mint
              [] OTHER -> f.extra

\* The length of the record a role's account must hold: a mint record, a
\* token account record, or whatever (0).
RoleRecordLen(name, role) ==
    IF role = "mint" \/ (role = "account" /\ name = "SetAuthority")
    THEN MintLen
    ELSE IF role \in {"from", "to", "source", "account"}
    THEN TokenAccountLen ELSE 0

\* C23 as stated: the length of every account list sent is the count of
\* accounts the harness's program indexes for the bytes sent.
C23_LengthIsIndexedCount ==
    TokenRun =>
        \A n \in 1 .. Len(svm.history) :
            \A o \in ProcessInstruction(ProgramOf(frame.h), SentAddresses(n),
                                        Sent(n).data) :
                Len(Sent(n).accounts) = Cardinality(o.accRead)

\* C23, amended: for every instruction either harness sends, measured or
\* setup, the discriminator selects the same-named operation in the
\* harness's program; opcodes 9, 10 and 14 are sent with the flag set; the
\* account list has the length of the catalog entry for the flags sent,
\* token program last; the program returns with one invoke, every role it
\* indexes holding the key the harness means for it, with a record of the
\* role's kind stored at it; the extended program indexes the whole list,
\* the classic program all of it but the trailing token program.
C23_SentMatchesCatalog ==
    TokenRun =>
        \A n \in 1 .. Len(svm.history) :
            LET p == ProgramOf(frame.h)
                tp == TokenProgramId(frame.h)
                d == Sent(n).data[1]
                keys == SentAddresses(n)
            IN  /\ CatalogName(d) = SentName(n)
                /\ Arm(p, Sent(n).data).kind = SentName(n)
                /\ d \in {9, 10, 14} => Sent(n).data[3] = 1
                /\ Len(keys) = Len(Catalog(d, SentFlag(n)))
                /\ Len(keys) = ExpectedCount(d, IF SentFlag(n) THEN 1 ELSE 0)
                /\ keys[Len(keys)] = tp
                /\ \A o \in ProcessInstruction(p, keys, Sent(n).data) :
                      /\ o.status = "returned"
                      /\ Len(o.cpi) = 1
                      /\ o.cpi[1].op.kind = SentName(n)
                      /\ o.accRead =
                             0 .. (Len(keys) - (IF p = "token_ops" THEN 2 ELSE 1))
                      /\ \A r \in DOMAIN o.binding :
                            /\ keys[o.binding[r] + 1]
                                   = RoleKey(SentName(n), r, frame, tp)
                            /\ RoleRecordLen(SentName(n), r) > 0 =>
                                  /\ keys[o.binding[r] + 1] \in DOMAIN svm.accounts
                                  /\ Len(svm.accounts[keys[o.binding[r] + 1]].data)
                                         = RoleRecordLen(SentName(n), r)
                                  /\ svm.accounts[keys[o.binding[r] + 1]].owner = tp

\* The extended harness has sent InitializeMint with the flag set and five
\* accounts, and the extended program takes the fifth for the token program
\* and the fourth for the freeze authority.
C23_Witness ==
    /\ TokenRun /\ Scenario("InitializeMint") /\ frame.h = "token_2022"
    /\ Len(svm.history) = 1
    /\ Len(Sent(1).accounts) = 5
    /\ \E o \in ProcessInstruction("token_ops_2022", SentAddresses(1),
                                   Sent(1).data) :
           /\ o.binding["token_program"] = 4
           /\ o.binding["freeze_authority"] = 3

------------------------------------------------------------------------------
(* C27 *)

\* The roles of an operation that only supply an address.
AddressOnlyRoles(name) ==
    CASE name \in {"InitializeAccount2", "InitializeAccount3"} -> {"owner"}
      [] name \in {"InitializeMint", "InitializeMint2"} ->
            {"mint_authority", "freeze_authority"}
      [] name = "SetAuthority" -> {"new_authority"}
      [] OTHER -> {}

\* The roles the harness's program reads by address alone for these bytes.
ReadByAddress(p, data) ==
    {s.name : s \in Named(Arm(p, data).steps, {"addr"})}

\* The keys that sign a transaction, and the keys its instruction marks as
\* signers.
SignersOf(tx) == {tx.signers[i] : i \in 1 .. Len(tx.signers)}
MarkedSigners(ix) ==
    {ix.accounts[i].pubkey :
        i \in {j \in 1 .. Len(ix.accounts) : ix.accounts[j].is_signer}}

\* C27: in both harnesses every account that only supplies an address is
\* sent read-only and non-signer, at the index the program reads that
\* address from; the payer signs every transaction; the authority signs
\* exactly when the account list marks it as signer, which is for opcodes
\* 0-8 and 14; the five initialize operations are signed by the payer
\* alone and mark no signer.
C27_AddressOnlyAndSigners ==
    TokenRun =>
        \A n \in 1 .. Len(svm.history) :
            LET tx == svm.history[n].tx
                ix == Sent(n)
                p == ProgramOf(frame.h)
                d == ix.data[1]
                binding == BindingOf(p, d, SentFlag(n))
            IN  /\ AddressOnlyRoles(SentName(n)) \subseteq DOMAIN binding
                /\ AddressOnlyRoles(SentName(n)) \subseteq ReadByAddress(p, ix.data)
                /\ \A r \in AddressOnlyRoles(SentName(n)) :
                      /\ ~ix.accounts[binding[r] + 1].is_writable
                      /\ ~ix.accounts[binding[r] + 1].is_signer
                /\ tx.payer = frame.payer
                /\ frame.payer \in SignersOf(tx)
                /\ SignersOf(tx) \subseteq {frame.payer, frame.authority}
                /\ frame.authority \in SignersOf(tx)
                       <=> frame.authority \in MarkedSigners(ix)
                /\ frame.authority \in SignersOf(tx)
                       <=> d \in (0 .. 8) \cup {14}
                /\ MarkedSigners(ix) \subseteq {frame.authority}
                /\ d \in 9 .. 13 =>
                      /\ tx.signers = <<frame.payer>>
                      /\ MarkedSigners(ix) = {}

\* The classic harness has sent SetAuthority: payer and authority sign, and
\* the new authority, read by address at index 2, is read-only non-signer.
C27_Witness ==
    /\ TokenRun /\ Scenario("SetAuthority") /\ frame.h = "token"
    /\ Len(svm.history) = 1
    /\ svm.history[1].tx.signers = <<frame.payer, frame.authority>>
    /\ Sent(1).accounts[3] = AccountMetaNewReadonly(frame.extra, FALSE)
    /\ "new_authority" \in ReadByAddress("token_ops", Sent(1).data)

------------------------------------------------------------------------------
(* C29 *)

\* The token program and the benchmark program a harness is written for.
OwnTokenProgram(h) ==
    IF h = "token" THEN SPL_TOKEN_ID ELSE TOKEN_2022_PROGRAM_ID
OtherTokenProgram(h) ==
    IF h = "token" THEN TOKEN_2022_PROGRAM_ID ELSE SPL_TOKEN_ID
OwnBenchmarkProgram(h) ==
    IF h = "token" THEN TOKEN_OPS_PROGRAM_ID ELSE TOKEN_OPS_2022_PROGRAM_ID

\* The keys of the ledger in hand that hold a record: the fixture accounts
\* (an airdrop leaves no data).
FixtureKeys == {k \in DOMAIN svm.accounts : svm.accounts[k].data # <<>>}

\* C29: in each harness the ledger holds the harness's token program and
\* benchmark program and not the other harness's token program; every
\* fixture account (mint, source, destination, account to close,
\* uninitialized mint and token account) is owned by that token program;
\* every instruction ends with that token program's account, is addressed
\* to the harness's own benchmark program, and names no account owned by
\* the other token program: SPL Token throughout the classic harness,
\* Token-2022 throughout the extended one.
C29_OneTokenProgramPerHarness ==
    (TokenRun /\ pc.at \in {"setup", "send", "row"}) =>
        /\ SPL_TOKEN_ID # TOKEN_2022_PROGRAM_ID
        /\ svm.programs
               = {OwnTokenProgram(frame.h), OwnBenchmarkProgram(frame.h)}
        /\ {frame.mint, frame.source_token, frame.dest_token} \subseteq FixtureKeys
        /\ frame.op \in {"CloseAccount", "InitializeMint", "InitializeMint2",
                         "InitializeAccount", "InitializeAccount2",
                         "InitializeAccount3"} => frame.extra \in FixtureKeys
        /\ \A k \in FixtureKeys :
               svm.accounts[k].owner = OwnTokenProgram(frame.h)
        /\ \A n \in 1 .. Len(svm.history) :
               /\ Sent(n).program_id = OwnBenchmarkProgram(frame.h)
               /\ Sent(n).accounts[Len(Sent(n).accounts)].pubkey
                      = OwnTokenProgram(frame.h)
               /\ \A i \in 1 .. Len(Sent(n).accounts) :
                      LET k == Sent(n).accounts[i].pubkey
                      IN  /\ k # OtherTokenProgram(frame.h)
                          /\ k \in DOMAIN svm.accounts =>
                                svm.accounts[k].owner # OtherTokenProgram(frame.h)

\* The extended harness has sent InitializeAccount: the uninitialized token
\* account, first in the list, is owned by Token-2022, which is loaded and
\* last in the list.
C29_Witness ==
    /\ TokenRun /\ Scenario("InitializeAccount") /\ frame.h = "token_2022"
    /\ Len(svm.history) = 1
    /\ svm.accounts[Sent(1).accounts[1].pubkey].owner = TOKEN_2022_PROGRAM_ID
    /\ svm.accounts[Sent(1).accounts[1].pubkey].data = Zeroed(TokenAccountLen)
    /\ TOKEN_2022_PROGRAM_ID \in svm.programs
    /\ Sent(1).accounts[5].pubkey = TOKEN_2022_PROGRAM_ID

------------------------------------------------------------------------------
(* C26 *)

\* A call of create_token_account_data that has returned.
TokenAccountBuilt ==
    fixture.fn = "create_token_account_data" /\ fixture.data # <<>>

\* Bytes from..to-1 (0-based) of data are all zero.
AllZero(data, from, to) == \A i \in from .. (to - 1) : data[i + 1] = 0

\* C26: create_token_account_data returns 165 bytes: the mint in 0..32, the
\* owner in 32..64, the amount little-endian in 64..72, state 1 at byte
\* 108; delegate (72), is_native (109) and close_authority (129) each have
\* a zero four-byte flag and an all-zero payload (76..108, 113..121,
\* 133..165), and delegated_amount (121..129) is zero; for every mint,
\* owner and amount.
C26_TokenAccountLayout ==
    TokenAccountBuilt =>
        /\ Len(fixture.data) = 165
        /\ SubSeq(fixture.data, 1, 32) = fixture.args.mint
        /\ SubSeq(fixture.data, 33, 64) = fixture.args.owner
        /\ U64FromLeBytes(SubSeq(fixture.data, 65, 72)) = fixture.args.amount
        /\ \A i \in 0 .. 7 :
               fixture.data[64 + i + 1] =
                   IF i % 2 = 0 THEN fixture.args.amount[i \div 2 + 1] % 256
                   ELSE fixture.args.amount[i \div 2 + 1] \div 256
        /\ fixture.data[108 + 1] = 1
        /\ COptionTag(fixture.data, 72) = <<0, 0>>
        /\ AllZero(fixture.data, 72, 108)
        /\ COptionTag(fixture.data, 109) = <<0, 0>>
        /\ AllZero(fixture.data, 109, 121)
        /\ AllZero(fixture.data, 121, 129)
        /\ COptionTag(fixture.data, 129) = <<0, 0>>
        /\ AllZero(fixture.data, 129, 165)

\* A token account built for a mint and an owner that differ, with an
\* amount that fills all eight bytes.
C26_Witness ==
    /\ TokenAccountBuilt
    /\ fixture.args.mint # fixture.args.owner
    /\ fixture.args.amount = <<65535, 65535, 65535, 65535>>
    /\ SubSeq(fixture.data, 65, 72) = <<255, 255, 255, 255, 255, 255, 255, 255>>

------------------------------------------------------------------------------
(* The write-copy program (src/programs/write-copy/src/lib.rs).              *)
(* A buffer is its bytes together with a count, kept for the claims, of the *)
(* writes each byte has had.                                                *)

\* The longest buffer, and the longest source, of a call of write_bytes_copy
\* on drawn arguments; the longest account list given to the program.
MaxCopyLen == 3
MaxWriteAccounts == 2

\* MaybeUninit::<u8>::uninit(): a byte that holds no value.
UNINIT_BYTE == -1

\* [UNINIT_BYTE; n], no byte of it written yet.
UninitArray(n) ==
    [bytes |-> [i \in 1 .. n |-> UNINIT_BYTE], writes |-> [i \in 1 .. n |-> 0]]

\* core::ptr::copy_nonoverlapping(src, dst, count), where dst points at byte
\* `at` (0-based) of memory: count bytes are written from there on.
CopyNonoverlapping(memory, at, source, count) ==
    [bytes |-> [i \in 1 .. Len(memory.bytes) |->
                   IF at < i /\ i <= at + count
                   THEN source[i - at] ELSE memory.bytes[i]],
     writes |-> [i \in 1 .. Len(memory.writes) |->
                   memory.writes[i]
                       + (IF at < i /\ i <= at + count THEN 1 ELSE 0)]]

\* A copy of the whole source, whatever the destination's length.
write_bytes_copy_SourceLen(memory, from, to, source) ==
    CopyNonoverlapping(memory, from, source, Len(source))

\* write_bytes_copy(&mut memory[from..to], source)
write_bytes_copy(memory, from, to, source) ==
    CopyNonoverlapping(memory, from, source, Min({to - from, Len(source)}))

\* 12345678u64
Amount12345678 == <<24910, 188, 0, 0>>

\* The seven calls of process_instruction, in order, for the address of
\* accounts[0].
WriteCopyCalls(address) ==
    <<[buf |-> "data1", from |-> 0, to |-> 1, source |-> <<3>>],
      [buf |-> "data1", from |-> 1, to |-> 9,
       source |-> U64ToLeBytes(Amount12345678)],
      [buf |-> "data2", from |-> 0, to |-> 1, source |-> <<0>>],
      [buf |-> "data2", from |-> 1, to |-> 2, source |-> <<9>>],
      [buf |-> "data2", from |-> 2, to |-> 34, source |-> address],
      [buf |-> "data2", from |-> 34, to |-> 35, source |-> <<1>>],
      [buf |-> "data2", from |-> 35, to |-> 67, source |-> address]>>

\* What a read of bytes may see: the value of a byte that holds one, any
\* value for a byte that holds none.
Observations(bytes) ==
    LET unwritten == {i \in 1 .. Len(bytes) : bytes[i] = UNINIT_BYTE}
    IN  {[i \in 1 .. Len(bytes) |->
             IF i \in unwritten THEN f[i] ELSE bytes[i]] :
           f \in [unwritten -> ByteSamples]}

\* The addresses and account lists given to write-copy, and the calls of
\* write_bytes_copy on arguments of every length up to MaxCopyLen, the
\* destination a slice of a buffer that has bytes before and after it.
WriteCopyAddresses ==
    {[i \in 1 .. PubkeyLen |-> i], [i \in 1 .. PubkeyLen |-> 255]}
WriteCopyAccountLists ==
    UNION {[1 .. n -> WriteCopyAddresses] : n \in 0 .. MaxWriteAccounts}
CopyCalls ==
    {[memory |-> [bytes |-> [i \in 1 .. n |-> v], writes |-> [i \in 1 .. n |-> 0]],
      from |-> from, to |-> to,
      source |-> [i \in 1 .. m |-> 10 + i],
      out |-> <<>>, done |-> FALSE] :
        n \in 0 .. MaxCopyLen, v \in {UNINIT_BYTE, 7},
        from \in 0 .. MaxCopyLen, to \in 0 .. MaxCopyLen, m \in 0 .. MaxCopyLen}

WriteCopyInit ==
    /\ instruction_data = <<>>
    /\ accounts \in WriteCopyAccountLists
    /\ token_ops = [status |-> "none"]
    /\ token_ops_2022 = [status |-> "none"]
    /\ write_copy = [at |-> "entry", k |-> 0, data1 |-> UninitArray(0),
                     data2 |-> UninitArray(0), seen |-> <<>>,
                     result |-> "pending"]
    /\ call \in {c \in CopyCalls :
                    c.from <= c.to /\ c.to <= Len(c.memory.bytes)}
    /\ NoFixture
    /\ NoHarness

\* process_instruction up to its first call: accounts[0], which panics on an
\* empty list, and data1.
WriteCopyEntry ==
    /\ write_copy.at = "entry"
    /\ write_copy' =
           IF accounts = <<>>
           THEN [write_copy EXCEPT !.at = "panicked", !.result = "panic"]
           ELSE [write_copy EXCEPT !.at = "call", !.k = 1,
                                   !.data1 = UninitArray(9)]
    /\ UNCHANGED <<instruction_data, accounts, token_ops, token_ops_2022, call>>
    /\ UNCHANGED <<fixture_vars, harness_vars>>

\* The k-th call of write_bytes_copy; data2 is declared before the third.
WriteCopyCall ==
    /\ write_copy.at = "call"
    /\ LET c == WriteCopyCalls(accounts[1])[write_copy.k]
           before == IF write_copy.k = 3 THEN UninitArray(67)
                     ELSE write_copy[c.buf]
       IN  write_copy' =
               [write_copy EXCEPT
                   ![c.buf] = write_bytes_copy(before, c.from, c.to, c.source),
                   !.k = IF @ = 7 THEN 0 ELSE @ + 1,
                   !.at = IF write_copy.k = 7 THEN "black_box" ELSE "call"]
    /\ UNCHANGED <<instruction_data, accounts, token_ops, token_ops_2022, call>>
    /\ UNCHANGED <<fixture_vars, harness_vars>>

\* black_box(&data1), black_box(&data2) and Ok(()).
WriteCopyReturn ==
    /\ write_copy.at = "black_box"
    /\ \E s1 \in Observations(write_copy.data1.bytes),
          s2 \in Observations(write_copy.data2.bytes) :
           write_copy' = [write_copy EXCEPT !.at = "returned",
                                            !.seen = <<s1, s2>>,
                                            !.result = "Ok"]
    /\ UNCHANGED <<instruction_data, accounts, token_ops, token_ops_2022, call>>
    /\ UNCHANGED <<fixture_vars, harness_vars>>

\* write_bytes_copy is called on the arguments drawn and returns.
WriteBytesCopy ==
    /\ ~call.done
    /\ call' = [call EXCEPT
                   !.out = write_bytes_copy(call.memory, call.from, call.to,
                                            call.source),
                   !.done = TRUE]
    /\ UNCHANGED <<instruction_data, accounts, token_ops, token_ops_2022,
                   write_copy>>
    /\ UNCHANGED <<fixture_vars, harness_vars>>

WriteCopyNext ==
    \/ WriteCopyEntry
    \/ WriteCopyCall
    \/ WriteCopyReturn
    \/ WriteBytesCopy

WriteCopySpec == WriteCopyInit /\ [][WriteCopyNext]_vars

------------------------------------------------------------------------------
(* C30 *)

\* A call of write_bytes_copy on drawn arguments that has returned, and the
\* count of bytes it had to copy.
CopyReturned == write_copy.at # "none" /\ call.done
CopyCount ==
    IF call.to - call.from <= Len(call.source)
    THEN call.to - call.from ELSE Len(call.source)

\* The buffers of write-copy are about to be read or have been.
BuffersComplete == write_copy.at \in {"black_box", "returned"}

\* C30: write_bytes_copy copies exactly min(destination length, source
\* length) bytes from the start of the source to the start of the
\* destination, each written once; every destination byte past that count
\* and every byte outside the destination slice is as it was and has not
\* been written; and in write-copy's process_instruction nothing is read
\* before the seven calls are over, when every byte of data1 (9 bytes) and
\* of data2 (67 bytes) has been written exactly once and holds its value.
C30_CopyMinAndWriteOnce ==
    /\ CopyReturned =>
           /\ Len(call.out.bytes) = Len(call.memory.bytes)
           /\ \A i \in 1 .. Len(call.memory.bytes) :
                  IF call.from < i /\ i <= call.from + CopyCount
                  THEN /\ call.out.bytes[i] = call.source[i - call.from]
                       /\ call.out.writes[i] = 1
                  ELSE /\ call.out.bytes[i] = call.memory.bytes[i]
                       /\ call.out.writes[i] = 0
    /\ write_copy.at \in {"entry", "call", "black_box", "panicked"} =>
           write_copy.seen = <<>>
    /\ write_copy.at = "panicked" =>
           /\ accounts = <<>>
           /\ write_copy.data1 = UninitArray(0)
    /\ BuffersComplete =>
           /\ write_copy.data1.writes = [i \in 1 .. 9 |-> 1]
           /\ write_copy.data2.writes = [i \in 1 .. 67 |-> 1]
           /\ write_copy.data1.bytes = <<3, 78, 97, 188, 0, 0, 0, 0, 0>>
           /\ write_copy.data2.bytes
                  = ((<<0, 9>> \o accounts[1]) \o <<1>>) \o accounts[1]
    /\ write_copy.at = "returned" =>
           write_copy.seen = <<write_copy.data1.bytes, write_copy.data2.bytes>>

\* write-copy has returned, and a call of write_bytes_copy with a source
\* longer than its destination, which has a byte before it and a byte
\* after it, has returned.
C30_Witness ==
    /\ write_copy.at = "returned"
    /\ CopyReturned
    /\ call.from = 1 /\ call.to = 2 /\ Len(call.memory.bytes) = 3
    /\ Len(call.source) = 3
    /\ call.out.bytes = <<UNINIT_BYTE, 11, UNINIT_BYTE>>

====
